---- MODULE Spec2Model ----
(***************************************************************************)
(* CodeBase_Genius: the file classifier and the lexical entity extractor   *)
(* of BE/py/code_analyzer.py (class CodeAnalyzer).                         *)
(*                                                                         *)
(* Text is modelled at token level.  A token is either a maximal run of    *)
(* word characters (a "word", kept as one TLA+ string) or one single       *)
(* non-word character.  Two words are never adjacent in a text: they would *)
(* be one longer word.  A path is a sequence of tokens in which "/" and    *)
(* "." are the non-word characters; a source line is a sequence of tokens; *)
(* a content is kept as the list of its lines, content.split('\n').        *)
(***************************************************************************)
EXTENDS Integers, Sequences, FiniteSets, TLC

\* ------------------------------------------------------------------ bounds

\* Longest path, in tokens, handed to the classifier.
MaxPathLen == 5

\* ---------------------------------------------------------- small helpers

NoneValue == "None"

Min(a, b) == IF a <= b THEN a ELSE b

Range(s) == {s[i] : i \in 1..Len(s)}

\* str.rfind for a one-character needle, 1-based, 0 when absent.
LastIndexOf(s, t) ==
  LET I == {i \in 1..Len(s) : s[i] = t}
  IN  IF I = {} THEN 0 ELSE CHOOSE i \in I : \A k \in I : k <= i

\* The text of a token sequence.
RECURSIVE Concat(_)
Concat(toks) ==
  IF toks = <<>> THEN "" ELSE Head(toks) \o Concat(Tail(toks))

\* str.lower of one word.
Lower(w) ==
  CASE w = "PY" -> "py"
    [] w = "JSON" -> "json"
    [] w = "Md" -> "md"
    [] OTHER -> w

LowerAll(toks) == [i \in 1..Len(toks) |-> Lower(toks[i])]

\* ------------------------------------------------------------ pathlib

\* PurePosixPath(p).name: the last component of p that is neither empty
\* nor ".", or the empty name when p has none.
RECURSIVE PathName(_)
PathName(p) ==
  IF p = <<>> THEN <<>>
  ELSE LET j == LastIndexOf(p, "/")
           comp == SubSeq(p, j + 1, Len(p))
       IN  IF comp = <<>> \/ comp = <<".">>
           THEN IF j = 0 THEN <<>> ELSE PathName(SubSeq(p, 1, j - 1))
           ELSE comp

\* PurePath.suffix: name[i:] for i = name.rfind('.') when 0 < i < len(name)-1,
\* and '' otherwise.
PathSuffix(p) ==
  LET name == PathName(p)
      i == LastIndexOf(name, ".")
  IN  IF 1 < i /\ i < Len(name) THEN SubSeq(name, i, Len(name)) ELSE <<>>

\* Path(filepath).suffix.lower()
SuffixLower(p) == Concat(LowerAll(PathSuffix(p)))

\* ------------------------------------------------------- extension tables

\* A table in which a second language claims ".py" too.
LANGUAGE_PATTERNS_SharedExtension ==
  << [lang |-> "python",     extensions |-> <<".py">>],
     [lang |-> "javascript", extensions |-> <<".js", ".jsx", ".mjs">>],
     [lang |-> "typescript", extensions |-> <<".ts", ".tsx">>],
     [lang |-> "java",       extensions |-> <<".java">>],
     [lang |-> "csharp",     extensions |-> <<".cs">>],
     [lang |-> "cpp",        extensions |-> <<".cpp", ".cc", ".cxx", ".hpp", ".h">>],
     [lang |-> "go",         extensions |-> <<".go">>],
     [lang |-> "rust",       extensions |-> <<".rs">>],
     [lang |-> "ruby",       extensions |-> <<".rb", ".py">>],
     [lang |-> "php",        extensions |-> <<".php">>],
     [lang |-> "swift",      extensions |-> <<".swift">>],
     [lang |-> "kotlin",     extensions |-> <<".kt", ".kts">>] >>

\* LANGUAGE_PATTERNS, in declaration order: each language's 'extensions'.
LANGUAGE_PATTERNS ==
  << [lang |-> "python",     extensions |-> <<".py">>],
     [lang |-> "javascript", extensions |-> <<".js", ".jsx", ".mjs">>],
     [lang |-> "typescript", extensions |-> <<".ts", ".tsx">>],
     [lang |-> "java",       extensions |-> <<".java">>],
     [lang |-> "csharp",     extensions |-> <<".cs">>],
     [lang |-> "cpp",        extensions |-> <<".cpp", ".cc", ".cxx", ".hpp", ".h">>],
     [lang |-> "go",         extensions |-> <<".go">>],
     [lang |-> "rust",       extensions |-> <<".rs">>],
     [lang |-> "ruby",       extensions |-> <<".rb">>],
     [lang |-> "php",        extensions |-> <<".php">>],
     [lang |-> "swift",      extensions |-> <<".swift">>],
     [lang |-> "kotlin",     extensions |-> <<".kt", ".kts">>] >>

MARKUP_LANGUAGES ==
  {".html", ".htm", ".xml", ".svg", ".md", ".markdown", ".rst", ".tex", ".adoc"}

CONFIG_FILES ==
  {".json", ".yaml", ".yml", ".toml", ".ini", ".cfg", ".conf", ".properties", ".env"}

STYLE_FILES == {".css", ".scss", ".sass", ".less", ".styl"}

Categories == {"code", "markup", "config", "style", "other"}

Languages == {LANGUAGE_PATTERNS[i].lang : i \in 1..Len(LANGUAGE_PATTERNS)}

\* -------------------------------------------------------------- classifier

\* The first language, in table order, whose extension list holds ext.
FirstLanguageOf(ext) ==
  LET I == {i \in 1..Len(LANGUAGE_PATTERNS) :
              ext \in Range(LANGUAGE_PATTERNS[i].extensions)}
  IN  IF I = {} THEN NoneValue
      ELSE LANGUAGE_PATTERNS[CHOOSE i \in I : \A k \in I : i <= k].lang

\* A detect_language that forgets .lower().
detect_language_CaseSensitive(filepath) ==
  FirstLanguageOf(Concat(PathSuffix(filepath)))

detect_language(filepath) ==
  FirstLanguageOf(SuffixLower(filepath))

\* A categorize_file that looks the extension up itself, without .lower(),
\* instead of asking detect_language.
categorize_file_OwnLookup(filepath) ==
  LET ext == SuffixLower(filepath)
  IN  IF FirstLanguageOf(Concat(PathSuffix(filepath))) # NoneValue THEN "code"
      ELSE IF ext \in MARKUP_LANGUAGES THEN "markup"
      ELSE IF ext \in CONFIG_FILES THEN "config"
      ELSE IF ext \in STYLE_FILES THEN "style"
      ELSE "other"

categorize_file(filepath) ==
  LET ext == SuffixLower(filepath)
  IN  IF detect_language(filepath) # NoneValue THEN "code"
      ELSE IF ext \in MARKUP_LANGUAGES THEN "markup"
      ELSE IF ext \in CONFIG_FILES THEN "config"
      ELSE IF ext \in STYLE_FILES THEN "style"
      ELSE "other"

\* ------------------------------------------------------- source text

\* The one-character tokens of source text; every other token is a word,
\* a run of \w characters.
NonWordTokens ==
  {" ", "(", ")", ":", ".", ",", "#", "\n", "{", "}", "=", "'", "\"", ";", "/"}

IsWord(t) == t \notin NonWordTokens

\* \s
IsSpace(t) == t = " "

\* Whether the token at position i of the line exists and is a word / a space.
WordAt(line, i) == i >= 1 /\ i <= Len(line) /\ IsWord(line[i])

SpaceAt(line, i) == i >= 1 /\ i <= Len(line) /\ IsSpace(line[i])

\* The position a greedy \s* started at i leaves off at.
SkipSpaces(line, i) ==
  LET J == {j \in i..Len(line) + 1 : \A k \in i..j - 1 : IsSpace(line[k])}
  IN  CHOOSE j \in J : \A k \in J : k <= j

\* The position a greedy run of tokens of class C started at i leaves off at.
SkipClass(line, i, C(_)) ==
  LET J == {j \in i..Len(line) + 1 : \A k \in i..j - 1 : C(line[k])}
  IN  CHOOSE j \in J : \A k \in J : k <= j

\* The position after `kw\s+` matched at i, or 0 when it does not match.
\* The keyword and the word token are equal: \s follows the keyword.
AfterKeyword(line, i, kw) ==
  IF i <= Len(line) /\ line[i] = kw /\ SpaceAt(line, i + 1)
  THEN SkipSpaces(line, i + 1) ELSE 0

\* ^\s*(?:opt\s+)?kw\s+(\w+) for an optional leading keyword among opts:
\* the names of re.finditer's matches on one line (none or one, the pattern
\* being anchored at the start of the line).
DeclarationMatch(line, opts, kw) ==
  LET i1 == SkipSpaces(line, 1)
      viaOpt == {AfterKeyword(line, i1, o) : o \in opts} \ {0}
      starts == {i1} \cup viaOpt
      ends == {AfterKeyword(line, i, kw) : i \in starts} \ {0}
      hits == {j \in ends : WordAt(line, j)}
  IN  IF hits = {} THEN <<>> ELSE << <<line[CHOOSE j \in hits : TRUE]>> >>

\* [\w.] and [\w.,\s]
IsModuleChar(t) == IsWord(t) \/ t = "."

IsImportChar(t) == IsWord(t) \/ t = "." \/ t = "," \/ IsSpace(t)

\* python 'import': ^\s*(?:from\s+[\w.]+\s+)?import\s+([\w.,\s]+)
\* The position after `[\w.]+\s+`, the dotted name ending at f2, or 0.
ModuleEnd(line, f1, f2) ==
  IF f2 = f1 \/ ~SpaceAt(line, f2) THEN 0 ELSE SkipSpaces(line, f2)

\* The position after `from\s+[\w.]+\s+`, given the position f1 after
\* `from\s+` (0 when that did not match), or 0.
FromPrefixEnd(line, f1) ==
  IF f1 = 0 THEN 0 ELSE ModuleEnd(line, f1, SkipClass(line, f1, IsModuleChar))

\* The position of the first space of `import\s+` matched at i, or 0.
ImportAt(line, i) ==
  IF i >= 1 /\ i <= Len(line) /\ line[i] = "import" /\ SpaceAt(line, i + 1)
  THEN i + 1 ELSE 0

FirstNonZero(a, b) == IF a # 0 THEN a ELSE b

\* Where `import\s+` starts its spaces, with the optional from-clause
\* tried first, for a line whose leading spaces end at i1.
ImportStart(line, i1) ==
  FirstNonZero(ImportAt(line, FromPrefixEnd(line, AfterKeyword(line, i1, "from"))),
               ImportAt(line, i1))

\* The group, for spaces s..j-1 and a run of its class j..e-1.  The group
\* is greedy; when nothing of its class follows the spaces, \s+ gives its
\* last space back to the group (if it took two or more).
ImportGroup(line, s, j, e) ==
  IF e > j THEN << SubSeq(line, j, e - 1) >>
  ELSE IF j - s >= 2 THEN << SubSeq(line, j - 1, j - 1) >>
  ELSE <<>>

ImportGroupFrom(line, s, j) ==
  ImportGroup(line, s, j, SkipClass(line, j, IsImportChar))

ImportCapture(line, s) ==
  IF s = 0 THEN <<>> ELSE ImportGroupFrom(line, s, SkipSpaces(line, s))

PythonImportMatch(line) ==
  ImportCapture(line, ImportStart(line, SkipSpaces(line, 1)))

\* A match of a pattern that may match anywhere in the line: the name it
\* captures and the position after it; end = 0 stands for no match.
NoMatch == [name |-> <<>>, end |-> 0]

Matched(name, end) == [name |-> name, end |-> end]

FirstOf(a, b) == IF a.end # 0 THEN a ELSE b

TokenIs(line, i, tok) == i >= 1 /\ i <= Len(line) /\ line[i] = tok

\* The position after `(?:async\s*)?tok` matched at l, or 0.  In the texts
\* of the model a keyword is a whole word, never a part of a longer one.
AfterAsync(line, l, tok) ==
  IF TokenIs(line, l, tok) THEN l + 1
  ELSE IF TokenIs(line, l, "async") /\ TokenIs(line, SkipSpaces(line, l + 1), tok)
  THEN SkipSpaces(line, l + 1) + 1
  ELSE 0

\* The position after `sep\s*(?:async\s*)?tok` matched at k, or 0.
AfterSeparator(line, k, sep, tok) ==
  IF TokenIs(line, k, sep) THEN AfterAsync(line, SkipSpaces(line, k + 1), tok)
  ELSE 0

\* (\w+) at j, then what is left of an alternative, which ends at e.
NamedUpTo(line, j, e) ==
  IF j # 0 /\ WordAt(line, j) /\ e # 0 THEN Matched(<<line[j]>>, e) ELSE NoMatch

\* function\s+(\w+), at token i.
FunctionKeywordAt(line, i) ==
  NamedUpTo(line, AfterKeyword(line, i, "function"),
            AfterKeyword(line, i, "function") + 1)

\* const\s+(\w+)\s*=\s*(?:async\s*)?\( , the name being at j.
ConstNamed(line, j) ==
  IF j = 0 THEN NoMatch
  ELSE NamedUpTo(line, j, AfterSeparator(line, SkipSpaces(line, j + 1), "=", "("))

ConstAt(line, i) == ConstNamed(line, AfterKeyword(line, i, "const"))

\* (\w+)\s*:\s*(?:async\s*)?function, at token i.
PropertyAt(line, i) ==
  NamedUpTo(line, i, AfterSeparator(line, SkipSpaces(line, i + 1), ":", "function"))

\* The three alternatives of the javascript 'function' pattern, in order.
ScriptFunctionAt(line, i) ==
  FirstOf(FunctionKeywordAt(line, i),
          FirstOf(ConstAt(line, i), PropertyAt(line, i)))

\* re.finditer of the javascript 'function' pattern from token i on: the
\* leftmost match, then the matches after its end.
RECURSIVE ScriptFunctionMatch(_, _)
ScriptFunctionNext(line, i, m) ==
  IF m.end = 0 THEN ScriptFunctionMatch(line, i + 1)
  ELSE <<m.name>> \o ScriptFunctionMatch(line, m.end)

ScriptFunctionMatch(line, i) ==
  IF i > Len(line) THEN <<>>
  ELSE ScriptFunctionNext(line, i, ScriptFunctionAt(line, i))

\* ['"]
IsQuote(t) == t = "'" \/ t = "\""

\* ['"](.+?)['"] at q: the group runs to the first quote that leaves it
\* non-empty.
Quoted(line, q, closing) ==
  IF ~(q <= Len(line) /\ IsQuote(line[q])) \/ closing = {} THEN <<>>
  ELSE << SubSeq(line, q + 1, (CHOOSE c \in closing : \A d \in closing : c <= d) - 1) >>

QuotedAt(line, q) ==
  Quoted(line, q, {c \in q + 2..Len(line) : IsQuote(line[c])})

\* from\s+['"](.+?)['"] at token j.
FromAt(line, j) ==
  IF AfterKeyword(line, j, "from") = 0 THEN <<>>
  ELSE QuotedAt(line, AfterKeyword(line, j, "from"))

\* .*?from...: the first `from` from token j on that the rest matches after.
RECURSIVE FirstFrom(_, _)
FirstFrom(line, j) ==
  IF j > Len(line) THEN <<>>
  ELSE IF FromAt(line, j) # <<>> THEN FromAt(line, j)
  ELSE FirstFrom(line, j + 1)

\* javascript 'import': ^\s*import\s+.*?from\s+['"](.+?)['"]
ScriptImportFrom(line, s) == IF s = 0 THEN <<>> ELSE FirstFrom(line, s + 1)

ScriptImportMatch(line) ==
  ScriptImportFrom(line, ImportAt(line, SkipSpaces(line, 1)))

\* LANGUAGE_PATTERNS[language] without 'extensions': the entity kinds in the
\* order the table declares them.  The languages whose patterns are modelled.
PatternKinds(language) ==
  CASE language = "python" -> <<"function", "class", "import">>
    [] language = "javascript" -> <<"function", "class", "import">>
    [] language = "rust"   -> <<"function", "struct", "trait">>
    [] language = "ruby"   -> <<"function", "class", "module">>

\* for match in re.finditer(pattern, line): the name of every match whose
\* first non-empty group exists, in match order.  A name is a token sequence.
MatchNames(language, kind, line) ==
  CASE language = "python" /\ kind = "function" -> DeclarationMatch(line, {}, "def")
    [] language = "javascript" /\ kind = "function" -> ScriptFunctionMatch(line, 1)
    [] language = "javascript" /\ kind = "class"    -> DeclarationMatch(line, {}, "class")
    [] language = "javascript" /\ kind = "import"   -> ScriptImportMatch(line)
    [] language = "python" /\ kind = "class"    -> DeclarationMatch(line, {}, "class")
    [] language = "python" /\ kind = "import"   -> PythonImportMatch(line)
    [] language = "rust" /\ kind = "function"   -> DeclarationMatch(line, {"pub"}, "fn")
    [] language = "rust" /\ kind = "struct"     -> DeclarationMatch(line, {"pub"}, "struct")
    [] language = "rust" /\ kind = "trait"      -> DeclarationMatch(line, {"pub"}, "trait")
    [] language = "ruby" /\ kind = "function"   -> DeclarationMatch(line, {}, "def")
    [] language = "ruby" /\ kind = "class"      -> DeclarationMatch(line, {}, "class")
    [] language = "ruby" /\ kind = "module"     -> DeclarationMatch(line, {}, "module")

\* ------------------------------------------------------------ contents

\* A text content is the list of its lines; None stands for a content that
\* is not text, on which content.split raises AttributeError.
Text(ls) == [str |-> TRUE, lines |-> ls]

NoneContent == [str |-> FALSE, lines |-> <<>>]

\* len() of a line and of the whole content, in characters.
RECURSIVE LineSize(_)
LineSize(line) ==
  IF line = <<>> THEN 0 ELSE Len(Head(line)) + LineSize(Tail(line))

RECURSIVE LinesSize(_)
LinesSize(ls) ==
  IF ls = <<>> THEN 0 ELSE LineSize(Head(ls)) + LinesSize(Tail(ls))

ContentSize(ls) == LinesSize(ls) + (Len(ls) - 1)

\* -------------------------------------------------------- self.stats

\* __init__: the statistics of a fresh analyzer (no 'files_by_language').
InitialStats ==
  [total_files |-> 0,
   files_by_type |-> <<>>,
   files_by_category |-> [c \in Categories |-> 0]]

\* analyze_repository's "Reset stats".
ResetStats ==
  [total_files |-> 0,
   files_by_type |-> <<>>,
   files_by_category |-> [c \in Categories |-> 0],
   files_by_language |-> <<>>]

\* A counter that is set, not incremented: d[k] = 1.
DictInc_Set(d, k) ==
  [x \in DOMAIN d \cup {k} |-> IF x = k THEN 1 ELSE d[x]]

\* d[k] = d.get(k, 0) + 1
DictInc(d, k) ==
  [x \in DOMAIN d \cup {k} |->
     IF x = k THEN (IF k \in DOMAIN d THEN d[k] ELSE 0) + 1 ELSE d[x]]

\* An update that counts code files only.
UpdateStats_CodeOnly(stats, category, ext) ==
  IF category # "code" THEN stats
  ELSE [stats EXCEPT !.total_files = @ + 1,
                     !.files_by_category = [@ EXCEPT ![category] = @ + 1],
                     !.files_by_type = DictInc(@, ext)]

\* analyze_file's "Update stats".
UpdateStats(stats, category, ext) ==
  [stats EXCEPT !.total_files = @ + 1,
                !.files_by_category = [@ EXCEPT ![category] = @ + 1],
                !.files_by_type = DictInc(@, ext)]

\* analyze_repository's "Track language stats".
TrackLanguage(stats, lang) ==
  [stats EXCEPT !.files_by_language = DictInc(@, lang)]

\* ------------------------------------------------------ entity extraction

\* An entity numbered by enumerate(lines), from 0.
Entity_FromZero(kind, name, i, language) ==
  [type |-> kind, name |-> name, line |-> i - 1, language |-> language]

Entity(kind, name, i, language) ==
  [type |-> kind, name |-> name, line |-> i, language |-> language]

Node(e) == [type |-> e.type, name |-> e.name, line |-> e.line]

\* An extraction with re.search: the first match of a line only.
LineEntities_FirstMatch(language, kind, names, i) ==
  [m \in 1..Min(1, Len(names)) |-> Entity(kind, names[m], i, language)]

\* The entities of the matches of one pattern on line i.
LineEntities(language, kind, names, i) ==
  [m \in 1..Len(names) |-> Entity(kind, names[m], i, language)]

\* for i, line in enumerate(lines, 1): the entities one pattern finds from
\* line i on.
RECURSIVE KindEntitiesFrom(_, _, _, _)
KindEntitiesFrom(language, kind, lines, i) ==
  IF i > Len(lines) THEN <<>>
  ELSE LineEntities(language, kind, MatchNames(language, kind, lines[i]), i)
       \o KindEntitiesFrom(language, kind, lines, i + 1)

\* for entity_type, pattern in patterns.items(): the entities of the kinds
\* from the k-th on.
RECURSIVE EntitiesFromKind(_, _, _, _)
EntitiesFromKind(language, kinds, lines, k) ==
  IF k > Len(kinds) THEN <<>>
  ELSE KindEntitiesFrom(language, kinds[k], lines, 1)
       \o EntitiesFromKind(language, kinds, lines, k + 1)

\* An extraction with the loops swapped, lines outside and kinds inside:
\* the entities in line order.
RECURSIVE LineKindEntities(_, _, _, _, _)
LineKindEntities(language, kinds, lines, i, k) ==
  IF i > Len(lines) THEN <<>>
  ELSE IF k > Len(kinds) THEN LineKindEntities(language, kinds, lines, i + 1, 1)
  ELSE LineEntities(language, kinds[k], MatchNames(language, kinds[k], lines[i]), i)
       \o LineKindEntities(language, kinds, lines, i, k + 1)

ExtractEntities_LineByLine(language, lines) ==
  LineKindEntities(language, PatternKinds(language), lines, 1, 1)

\* "Extract code entities based on language patterns"
ExtractEntities(language, lines) ==
  EntitiesFromKind(language, PatternKinds(language), lines, 1)

FunctionKinds == {"function", "func", "def"}

ClassKinds == {"class", "struct", "interface", "trait", "type"}

IsFunctionEntity(e) == e.type \in FunctionKinds

\* A bucketing with `else` for `elif`: whatever is no function is a class.
IsClassEntity_Else(e) == e.type \notin FunctionKinds

IsClassEntity(e) == e.type \notin FunctionKinds /\ e.type \in ClassKinds

\* --------------------------------------------------------------- call graph

\* The number of lines of a function's "body".
Window == 30

\* '\n'.join(ls)
RECURSIVE JoinLines(_)
JoinLines(ls) ==
  IF ls = <<>> THEN <<>>
  ELSE IF Len(ls) = 1 THEN ls[1]
  ELSE ls[1] \o <<"\n">> \o JoinLines(Tail(ls))

\* lines[start:start + n]
Slice(ls, start, n) == SubSeq(ls, start + 1, Min(start + n, Len(ls)))

\* \b between the tokens q - 1 and q of a text.
BoundaryAt(text, q) == WordAt(text, q - 1) # WordAt(text, q)

\* re.search(r'\b' + re.escape(name) + r'\b', text)
WordSearch(name, text) ==
  \E p \in 1..(Len(text) - Len(name) + 1) :
     /\ SubSeq(text, p, p + Len(name) - 1) = name
     /\ BoundaryAt(text, p)
     /\ BoundaryAt(text, p + Len(name))

\* A body that takes one line too many.
FunctionBody_OneMore(func, lines) ==
  JoinLines(Slice(lines, func.line - 1, Window + 1))

\* lines[start_line:start_line + 30] joined, for a function entity.
FunctionBody(func, lines) == JoinLines(Slice(lines, func.line - 1, Window))

\* An edge test that forgets other_name != func['name'].
EdgeWanted_NoSelfTest(func, other_name, body) == WordSearch(other_name, body)

EdgeWanted(func, other_name, body) ==
  other_name # func.name /\ WordSearch(other_name, body)

Edge(func, other_name) ==
  [from |-> func.name, to |-> other_name, type |-> "calls"]

\* for other_name in all_names: the edges one function contributes from the
\* n-th name on, one per entry of all_names that passes the test.
RECURSIVE EdgesFromName(_, _, _, _)
EdgesFromName(func, all_names, body, n) ==
  IF n > Len(all_names) THEN <<>>
  ELSE (IF EdgeWanted(func, all_names[n], body)
        THEN <<Edge(func, all_names[n])>> ELSE <<>>)
       \o EdgesFromName(func, all_names, body, n + 1)

FunctionEdges(func, all_names, lines) ==
  EdgesFromName(func, all_names, FunctionBody(func, lines), 1)

\* for func in functions: the edges of the functions from the k-th on.
RECURSIVE EdgesFromFunction(_, _, _, _)
EdgesFromFunction(functions, all_names, lines, k) ==
  IF k > Len(functions) THEN <<>>
  ELSE FunctionEdges(functions[k], all_names, lines)
       \o EdgesFromFunction(functions, all_names, lines, k + 1)

\* all_names = [e['name'] for e in entities]
AllNames(entities) == [n \in 1..Len(entities) |-> entities[n].name]

\* "Build call graph (simplified)"
BuildEdges(entities, functions, lines) ==
  EdgesFromFunction(functions, AllNames(entities), lines, 1)

\* ------------------------------------------------------------ analyze_file

\* A call graph that starts an edge at every entity.
SelectFunctions_Any(entities) == entities

SelectFunctions(entities) == SelectSeq(entities, IsFunctionEntity)

SelectClasses(entities) == SelectSeq(entities, IsClassEntity)

\* The result of a file without a detected language.
NonCodeResult(filepath, category, ext, lines) ==
  [filepath |-> filepath, language |-> NoneValue, category |-> category,
   extension |-> ext, lines |-> Len(lines), size |-> ContentSize(lines),
   nodes |-> <<>>, edges |-> <<>>, functions |-> <<>>, classes |-> <<>>,
   entities |-> <<>>]

\* The result of a code file, from the entities and the functions found.
CodeResultOf(filepath, language, category, ext, lines, entities, functions) ==
  [filepath |-> filepath, language |-> language, category |-> category,
   extension |-> ext, lines |-> Len(lines), size |-> ContentSize(lines),
   nodes |-> [n \in 1..Len(entities) |-> Node(entities[n])],
   edges |-> BuildEdges(entities, functions, lines),
   functions |-> functions,
   classes |-> SelectClasses(entities),
   entities |-> entities,
   entity_count |-> Len(entities)]

CodeResult(filepath, language, category, ext, lines, entities) ==
  CodeResultOf(filepath, language, category, ext, lines, entities,
               SelectFunctions(entities))

\* Entities numbered from line `first` instead of from line 1.
Renumber(entities, first) ==
  [n \in 1..Len(entities) |->
     [entities[n] EXCEPT !.line = @ + first - 1]]

\* An analyze_file that numbers the lines from the analyzer's file counter,
\* enumerate(lines, self.stats['total_files']).
Analyzed_CounterLines(updated, content, filepath, language, category, ext) ==
  IF ~content.str
  THEN [raised |-> TRUE, stats |-> updated, result |-> <<>>]
  ELSE IF language = NoneValue
  THEN [raised |-> FALSE, stats |-> updated,
        result |-> NonCodeResult(filepath, category, ext, content.lines)]
  ELSE [raised |-> FALSE, stats |-> updated,
        result |-> CodeResult(filepath, language, category, ext, content.lines,
                      Renumber(ExtractEntities(language, content.lines),
                               updated.total_files))]

\* An analyze_file that reads entities[0] of a code file and so raises
\* IndexError on a source without entities.
Analyzed_FirstEntity(updated, content, filepath, language, category, ext) ==
  IF ~content.str
  THEN [raised |-> TRUE, stats |-> updated, result |-> <<>>]
  ELSE IF language = NoneValue
  THEN [raised |-> FALSE, stats |-> updated,
        result |-> NonCodeResult(filepath, category, ext, content.lines)]
  ELSE IF ExtractEntities(language, content.lines) = <<>>
  THEN [raised |-> TRUE, stats |-> updated, result |-> <<>>]
  ELSE [raised |-> FALSE, stats |-> updated,
        result |-> CodeResult(filepath, language, category, ext, content.lines,
                              ExtractEntities(language, content.lines))]

\* analyze_file after "Update stats", which has left `updated` in self.stats:
\* a content that is not text raises here, after the file has been counted;
\* a file without a language gets the non-code result; a code file is scanned.
Analyzed(updated, content, filepath, language, category, ext) ==
  IF ~content.str
  THEN [raised |-> TRUE, stats |-> updated, result |-> <<>>]
  ELSE IF language = NoneValue
  THEN [raised |-> FALSE, stats |-> updated,
        result |-> NonCodeResult(filepath, category, ext, content.lines)]
  ELSE [raised |-> FALSE, stats |-> updated,
        result |-> CodeResult(filepath, language, category, ext, content.lines,
                              ExtractEntities(language, content.lines))]

\* analyze_file from "Update stats" on, for a classified file.
Classified(stats, content, filepath, language, category, ext) ==
  Analyzed(UpdateStats(stats, category, ext), content, filepath,
           language, category, ext)

\* analyze_file(content, filepath) on an analyzer whose self.stats is stats:
\* what it leaves in self.stats, whether it raised, and what it returned.
analyze_file(stats, content, filepath) ==
  Classified(stats, content, filepath, detect_language(filepath),
             categorize_file(filepath), SuffixLower(filepath))

\* ------------------------------------------------------------------ inputs

\* Sequences over S of length at most n.
SeqsUpTo(S, n) == UNION {[1..k -> S] : k \in 0..n}

\* The paths handed to the classifier: every text of at most MaxPathLen
\* tokens over "/", "." and a few words (a stem, and extensions of each
\* table in lower, upper and mixed case).
PathWords == {"a", "py", "PY", "env", "JSON", "Md", "css"}

PathTokens == {"/", "."} \cup PathWords

IsText(toks) ==
  \A i \in 1..Len(toks) - 1 : ~(toks[i] \in PathWords /\ toks[i + 1] \in PathWords)

Paths == {p \in SeqsUpTo(PathTokens, MaxPathLen) : IsText(p)}

\* The source lines the per-file analysis is run on, and the files made of
\* them: at most MaxDecl of these lines, each followed by a run of blank
\* lines that puts the next line at the start, on the last line, or just
\* past the end of a 30-line window (one such run per file at most).
MaxDecl == 3

LinePool ==
  { <<"def", " ", "f", "(", ")", ":">>,
    <<"def", " ", "g", "(", ")", ":">>,
    <<"class", " ", "g", ":">>,
    <<"import", " ", "g">>,
    <<"module", " ", "g">>,
    <<"import", " ", " ">>,
    <<" ", " ", "g", "(", ")">>,
    <<" ", " ", "gx", ".", "f", "(", ")">> }

Gaps == {0, Window - 2, Window - 1}

Blank(n) == [i \in 1..n |-> <<>>]

RECURSIVE Expand(_)
Expand(items) ==
  IF items = <<>> THEN <<>>
  ELSE <<Head(items).line>> \o Blank(Head(items).gap) \o Expand(Tail(items))

\* At most one long run of blank lines per file.
OneLongGap(items) ==
  Cardinality({i \in 1..Len(items) : items[i].gap # 0}) <= 1

\* content.split('\n') is never empty: the empty content is one empty line.
InputContents ==
  {Text(IF items = <<>> THEN << <<>> >> ELSE Expand(items)) :
     items \in {s \in SeqsUpTo([line : LinePool, gap : Gaps], MaxDecl) :
                  OneLongGap(s)}}

\* The paths of the single-file analysis: code paths, a markup path, and the
\* empty path, a path without extension and one with an unknown extension.
InputPaths ==
  { <<"a", ".", "py">>, <<"a", ".", "rb">>, <<"readme", ".", "md">>,
    <<>>, <<"a">>, <<"a", ".", "a">> }

\* Lines of a script: a declaration, two declarations on one line, a class
\* line that also holds a function property, an arrow function, an import,
\* a property whose function is named, and a call.
ScriptLinePool ==
  { <<"function", " ", "f", "(", ")", " ", "{">>,
    <<"function", " ", "f", " ", "function", " ", "g">>,
    <<"class", " ", "g", " ", "{", " ", "f", ":", " ", "function">>,
    <<"const", " ", "g", " ", "=", " ", "async", " ", "(">>,
    <<"import", " ", "f", " ", "from", " ", "'", "g", "'">>,
    <<"g", ":", " ", "async", " ", "function", " ", "f", "(">>,
    <<" ", " ", "g", "(", ")", ";">> }

ScriptContents ==
  {Text(IF ls = <<>> THEN << <<>> >> ELSE ls) : ls \in SeqsUpTo(ScriptLinePool, MaxDecl)}

ScriptPaths == { <<"a", ".", "js">> }

\* The files of the repository runs: the first example scenario of the
\* specification, a second source for the same path, a Ruby file, files
\* without a language, and two files whose content is not text.
ExampleSource ==
  Text(<< <<"def", " ", "foo", "(", ")", ":">>,
          <<" ", " ", " ", " ", "bar", "(", ")">>,
          <<>>,
          <<"def", " ", "bar", "(", ")", ":">>,
          <<" ", " ", " ", " ", "pass">>,
          <<>> >>)

OtherSource ==
  Text(<< <<"import", " ", "foo">>,
          <<"class", " ", "foo", ":">>,
          <<" ", "def", " ", "run", "(", ")", ":">>,
          <<" ", " ", "foo", "(", ")">> >>)

RubySource ==
  Text(<< <<"module", " ", "M">>, <<"def", " ", "go">>, <<" ", "M", ".", "foo">> >>)

TitleText == Text(<< <<"#", " ", "Title">>, <<>> >>)

File(p, c) == [path |-> p, content |-> c]

FilePool ==
  { File(<<"a", ".", "py">>, ExampleSource),
    File(<<"a", ".", "py">>, OtherSource),
    File(<<"lib", "/", "m", ".", "rb">>, RubySource),
    File(<<"readme", ".", "md">>, TitleText),
    File(<<".", "env">>, TitleText),
    File(<<"b", ".", "py">>, NoneContent),
    File(<<"notes", ".", "md">>, NoneContent) }

\* The mappings handed to analyze_repository: a dict, in insertion order,
\* of at most MaxFiles entries with distinct keys.
MaxFiles == 2

Mappings ==
  {m \in SeqsUpTo(FilePool, MaxFiles) :
     \A i, j \in 1..Len(m) : i # j => m[i].path # m[j].path}

\* Calls of analyze_repository, and direct calls of analyze_file, per run
\* of the model.
MaxRuns == 2

MaxDirect == 1

\* ------------------------------------------------------------------- state

VARIABLES
  filepath,     \* the path argument of the single-call specifications
  content,      \* the content argument of the single-call specification
  detected,     \* what detect_language(filepath) returned, "unset" before
  categorized,  \* what categorize_file(filepath) returned, "unset" before
  heap,         \* the statistics dicts ever created, by identity
  self_stats,   \* the dict self.stats refers to
  frame,        \* per caller, the locals of its analyze_repository call
  runs,         \* analyze_repository calls begun
  direct,       \* direct analyze_file calls made
  clean,        \* no analyze_file call since the last analyze_repository returned
  history,      \* the analyze_repository calls that returned, in order: what
                \* each returned, and its result dicts as they are now
  last_call,    \* the analyze_file call that returned last: its arguments, its result
  returned,     \* per argument pair, what analyze_file returned the first time
  request,      \* the AnalyzeRequest an /api/analyze call received
  remote,       \* what GitHub answers: the tree listing and each raw file
  mapper,       \* the locals of the call's RepoMapper.map_repository
  endpoint,     \* the locals of the /api/analyze call
  wire,         \* the HTTP requests the call sent, in order, with their answers
  response      \* how the /api/analyze call ended

vars == <<filepath, content, detected, categorized, heap, self_stats, frame,
          runs, direct, clean, history, last_call, returned,
          request, remote, mapper, endpoint, wire, response>>

Unset == "unset"

ApiVars == <<request, remote, mapper, endpoint, wire, response>>

\* No answer received yet.
NoAnswer == [kind |-> "none", status |-> 0, body |-> "none", chars |-> 0]

NoRepoMap ==
  [success |-> FALSE, error |-> Unset, files |-> <<>>, directories |-> <<>>,
   file_count |-> NoneValue, directory_count |-> NoneValue]

NoBuckets == [code |-> <<>>, config |-> <<>>, docs |-> <<>>, other |-> <<>>]

IdleMapper == [pc |-> "idle", response |-> NoAnswer, result |-> NoRepoMap]

IdleEndpoint ==
  [pc |-> "idle", buckets |-> NoBuckets, max_files |-> 0,
   files_to_analyze |-> <<>>, i |-> 0, attempt |-> 0, files_content |-> {},
   progress |-> <<>>, analysis |-> <<>>, docs |-> Unset]

NoResponse == [kind |-> "none", status |-> Unset, files_analyzed |-> 0]

\* No /api/analyze call is being served.
InitNoCall ==
  /\ request = [repo_url |-> <<>>, max_files |-> 0, max_files_null |-> FALSE]
  /\ remote = [main |-> NoAnswer, master |-> NoAnswer, listing |-> <<>>, raw |-> <<>>]
  /\ mapper = IdleMapper
  /\ endpoint = IdleEndpoint
  /\ wire = <<>>
  /\ response = NoResponse

Callers == {"t1", "t2"}

\* The caller of the sequential specifications.
SeqCallers == {"t1"}

NoReturn == [success |-> FALSE]

IdleFrame ==
  [pc |-> "idle", files_content |-> <<>>, idx |-> 1, all_results |-> <<>>,
   follows |-> FALSE, ret |-> NoReturn]

NoCall == [args |-> <<>>, result |-> <<>>]

\* CodeAnalyzer(): one analyzer, no call made yet.
InitAnalyzer ==
  /\ heap = <<InitialStats>>
  /\ self_stats = 1
  /\ frame = [t \in Callers |-> IdleFrame]
  /\ runs = 0
  /\ direct = 0
  /\ clean = FALSE
  /\ history = <<>>
  /\ last_call = NoCall
  /\ returned = <<>>

AnalyzerVars == <<heap, self_stats, frame, runs, direct, clean, history,
                  last_call, returned>>

ClassifierVars == <<detected, categorized>>

ArgVars == <<filepath, content>>

\* ------------------------------------------------------------ classifier ops

\* A call of detect_language(filepath).
DetectLanguage ==
  /\ detected = Unset
  /\ detected' = detect_language(filepath)
  /\ UNCHANGED <<ApiVars, ArgVars, categorized, AnalyzerVars>>

\* A call of categorize_file(filepath).
CategorizeFile ==
  /\ categorized = Unset
  /\ categorized' = categorize_file(filepath)
  /\ UNCHANGED <<ApiVars, ArgVars, detected, AnalyzerVars>>

InitClassify ==
  /\ filepath \in Paths
  /\ content = Text(<< <<>> >>)
  /\ detected = Unset
  /\ categorized = Unset
  /\ InitAnalyzer
  /\ InitNoCall

\* --------------------------------------------------------- analyzer ops

\* What a returning analyze_file call leaves in the call log.
LogCall(args, result) ==
  /\ last_call' = [args |-> args, result |-> result]
  /\ returned' = IF args \in DOMAIN returned THEN returned
                 ELSE [a \in DOMAIN returned \cup {args} |->
                         IF a = args THEN result ELSE returned[a]]

\* The effect of a direct call whose outcome is out.
DirectCall(f, out) ==
  /\ direct < MaxDirect
  /\ \A t \in Callers : frame[t].pc # "loop"
  /\ direct' = direct + 1
  /\ heap' = [heap EXCEPT ![self_stats] = out.stats]
  /\ clean' = FALSE
  /\ IF out.raised
     THEN UNCHANGED <<last_call, returned>>
     ELSE LogCall(File(f.path, f.content), out.result)
  /\ UNCHANGED <<ApiVars, ArgVars, ClassifierVars, self_stats, frame, runs, history>>

\* A direct call analyzer.analyze_file(f.content, f.path).  When it raises,
\* the caller gets the exception and self.stats keeps the update.
call_analyze_file(f) ==
  DirectCall(f, analyze_file(heap[self_stats], f.content, f.path))

\* analyze_repository(m), up to its loop: all_results = [] and "Reset stats",
\* which binds self.stats to a new dict.
begin_NoReset(t, m) ==
  /\ frame[t].pc # "loop"
  /\ runs < MaxRuns
  /\ runs' = runs + 1
  /\ heap' = [heap EXCEPT ![self_stats] =
                IF "files_by_language" \in DOMAIN @ THEN @
                ELSE [total_files |-> @.total_files,
                      files_by_type |-> @.files_by_type,
                      files_by_category |-> @.files_by_category,
                      files_by_language |-> <<>>]]
  /\ frame' = [frame EXCEPT ![t] =
                 [pc |-> "loop", files_content |-> m, idx |-> 1,
                  all_results |-> <<>>, follows |-> clean, ret |-> NoReturn]]
  /\ UNCHANGED <<ApiVars, ArgVars, ClassifierVars, self_stats, direct, clean, history,
                 last_call, returned>>

begin(t, m) ==
  /\ frame[t].pc # "loop"
  /\ runs < MaxRuns
  /\ runs' = runs + 1
  /\ heap' = Append(heap, ResetStats)
  /\ self_stats' = Len(heap) + 1
  /\ frame' = [frame EXCEPT ![t] =
                 [pc |-> "loop", files_content |-> m, idx |-> 1,
                  all_results |-> <<>>, follows |-> clean, ret |-> NoReturn]]
  /\ UNCHANGED <<ApiVars, ArgVars, ClassifierVars, direct, clean, history,
                 last_call, returned>>

\* An except clause that ends the loop: `break`.
AfterFailure_Break(idx, n) == n + 1

\* Where the loop goes on after the except clause: `continue`.
AfterFailure(idx, n) == idx + 1

\* The statistics after the try block: "Track language stats".
Tracked(out) ==
  IF out.result.language # NoneValue
  THEN TrackLanguage(out.stats, out.result.language)
  ELSE out.stats

\* An iteration that puts the result in front: all_results.insert(0, result).
Iteration_InsertFirst(t, f, out) ==
  /\ IF out.raised
     THEN /\ heap' = [heap EXCEPT ![self_stats] = out.stats]
          /\ frame' = [frame EXCEPT ![t].idx =
                         AfterFailure(@, Len(frame[t].files_content))]
          /\ UNCHANGED <<last_call, returned>>
     ELSE /\ heap' = [heap EXCEPT ![self_stats] = Tracked(out)]
          /\ frame' = [frame EXCEPT ![t].idx = @ + 1,
                                    ![t].all_results = <<out.result>> \o @]
          /\ LogCall(File(f.path, f.content), out.result)
  /\ clean' = FALSE
  /\ UNCHANGED <<ApiVars, ArgVars, ClassifierVars, self_stats, runs, direct, history>>

\* The effect of one iteration on file f whose analyze_file outcome is out:
\* the try block, or the except clause when analyze_file raised.
Iteration(t, f, out) ==
  /\ IF out.raised
     THEN /\ heap' = [heap EXCEPT ![self_stats] = out.stats]
          /\ frame' = [frame EXCEPT ![t].idx =
                         AfterFailure(@, Len(frame[t].files_content))]
          /\ UNCHANGED <<last_call, returned>>
     ELSE /\ heap' = [heap EXCEPT ![self_stats] = Tracked(out)]
          /\ frame' = [frame EXCEPT ![t].idx = @ + 1,
                                    ![t].all_results = Append(@, out.result)]
          /\ LogCall(File(f.path, f.content), out.result)
  /\ clean' = FALSE
  /\ UNCHANGED <<ApiVars, ArgVars, ClassifierVars, self_stats, runs, direct, history>>

IterationOn(t, f) ==
  Iteration(t, f, analyze_file(heap[self_stats], f.content, f.path))

\* One iteration of `for filepath, content in files_content.items()`.
step(t) ==
  /\ frame[t].pc = "loop"
  /\ frame[t].idx <= Len(frame[t].files_content)
  /\ IterationOn(t, frame[t].files_content[frame[t].idx])

\* r.get('entity_count', 0)
EntityCount(r) == IF "entity_count" \in DOMAIN r THEN r.entity_count ELSE 0

RECURSIVE SumOver(_, _)
SumOver(F(_), rs) ==
  IF rs = <<>> THEN 0 ELSE F(Head(rs)) + SumOver(F, Tail(rs))

CountFunctions(r) == Len(r.functions)

CountClasses(r) == Len(r.classes)

\* "Calculate totals" and the returned dict; 'stats' is self.stats itself,
\* the dict, not a copy of it.
Analysis(all_results, stats_ref) ==
  [success |-> TRUE,
   files_analyzed |-> Len(all_results),
   results |-> all_results,
   stats |-> stats_ref,
   total_functions |-> SumOver(CountFunctions, all_results),
   total_classes |-> SumOver(CountClasses, all_results),
   total_entities |-> SumOver(EntityCount, all_results)]

\* The effect of returning ret.
Return(t, ret) ==
  /\ frame' = [frame EXCEPT ![t].pc = "done", ![t].ret = ret]
  /\ history' = Append(history,
                       [files_content |-> frame[t].files_content,
                        ret |-> ret,
                        stats_then |-> heap[ret.stats],
                        follows |-> frame[t].follows,
                        results_now |-> ret.results,
                        generated |-> {}])
  /\ clean' = TRUE
  /\ UNCHANGED <<ApiVars, ArgVars, ClassifierVars, heap, self_stats, runs, direct,
                 last_call, returned>>

\* The end of analyze_repository: the loop is over, the analysis returned.
finish(t) ==
  /\ frame[t].pc = "loop"
  /\ frame[t].idx > Len(frame[t].files_content)
  /\ Return(t, Analysis(frame[t].all_results, self_stats))

\* The caller's discipline in the sequential specifications: one call at a
\* time on the analyzer.
BeginAlone(t, m) ==
  /\ \A u \in Callers : frame[u].pc # "loop"
  /\ begin(t, m)

InitFixedArgs ==
  /\ filepath = <<>>
  /\ content = Text(<< <<>> >>)
  /\ detected = Unset
  /\ categorized = Unset

Init == InitFixedArgs /\ InitAnalyzer /\ InitNoCall

Next ==
  \/ \E t \in SeqCallers, m \in Mappings : BeginAlone(t, m)
  \/ \E t \in SeqCallers : step(t)
  \/ \E t \in SeqCallers : finish(t)
  \/ \E f \in FilePool : call_analyze_file(f)

Spec == Init /\ [][Next]_vars

\* ------------------------------------------------ single-file specification

InitFile ==
  /\ \/ filepath \in InputPaths /\ content \in InputContents
     \/ filepath \in ScriptPaths /\ content \in ScriptContents
  /\ detected = Unset
  /\ categorized = Unset
  /\ InitAnalyzer
  /\ InitNoCall

\* A call of analyze_file on the arguments chosen at the start.
AnalyzeArgs == call_analyze_file(File(filepath, content))

NextFile == AnalyzeArgs

SpecFile == InitFile /\ [][NextFile]_vars

\* ------------------------------------------------ classifier specification

NextClassify == DetectLanguage \/ CategorizeFile \/ AnalyzeArgs

SpecClassify == InitClassify /\ [][NextClassify]_vars

\* ------------------------------------------------------------------ claims

\* The extension lists that hold ext.
LanguagesListing(ext) ==
  {LANGUAGE_PATTERNS[i].lang :
     i \in {k \in 1..Len(LANGUAGE_PATTERNS) :
              ext \in Range(LANGUAGE_PATTERNS[k].extensions)}}

\* The extension as the specification words it: the lowercased text after
\* the last '.' of the file name, '' when the name has no '.' or ends in it.
ClaimedExtension(p) ==
  IF LastIndexOf(PathName(p), ".") = 0
     \/ LastIndexOf(PathName(p), ".") = Len(PathName(p))
  THEN ""
  ELSE Concat(LowerAll(SubSeq(PathName(p), LastIndexOf(PathName(p), "."),
                              Len(PathName(p)))))

\* The category the extension tables alone give an extension.
TableCategory(ext) ==
  IF ext \in MARKUP_LANGUAGES THEN "markup"
  ELSE IF ext \in CONFIG_FILES THEN "config"
  ELSE IF ext \in STYLE_FILES THEN "style"
  ELSE "other"

\* C1: categorize_file returns one of the five category labels for every
\* path, and returns 'code' exactly when detect_language returns a language
\* for the same path; the result analyze_file builds for the path has
\* category 'code' exactly when its language is not None.
C1_CategorizeTotal ==
  /\ categorized # Unset => categorized \in Categories
  /\ (categorized # Unset /\ detected # Unset)
       => (categorized = "code" <=> detected # NoneValue)
  /\ last_call # NoCall
       => /\ last_call.result.category \in Categories
          /\ last_call.result.category = "code"
               <=> last_call.result.language # NoneValue
  /\ (last_call # NoCall /\ categorized # Unset)
       => last_call.result.category = categorized

\* A path in a directory with an upper-case known extension has been
\* detected, categorized as code and analyzed.
C1_Witness ==
  /\ filepath = <<"a", "/", "a", ".", "PY">>
  /\ detected = "python"
  /\ categorized = "code"
  /\ last_call # NoCall
  /\ last_call.result.language = "python"

\* C2 as stated: detect_language returns the language whose list holds the
\* lowercased text after the last '.', and None when no list holds it.
C2_Original ==
  detected # Unset =>
    /\ \A L \in LanguagesListing(ClaimedExtension(filepath)) : detected = L
    /\ LanguagesListing(ClaimedExtension(filepath)) = {} => detected = NoneValue

\* C2: detect_language returns language L for every path whose final
\* component has a lowercased pathlib suffix in L's extension list (the
\* text from the last '.' of the component, that '.' being neither its
\* first nor its last character), whatever the letter case and the
\* directories before it, and returns None for every other path.
C2_DetectBySuffix ==
  detected # Unset =>
    /\ \A L \in LanguagesListing(SuffixLower(filepath)) : detected = L
    /\ LanguagesListing(SuffixLower(filepath)) = {} => detected = NoneValue
    /\ (Len(PathName(filepath)) = 2 /\ PathName(filepath)[1] = ".")
         => detected = NoneValue

\* An upper-case extension behind a directory has been detected as python.
C2_Witness ==
  /\ filepath = <<"a", "/", "a", ".", "PY">>
  /\ detected = "python"

\* C3: on a path without a detected language, categorize_file returns the
\* category of the table that holds the lowercased text after the last '.'
\* of the file name ('.env' is 'config'), and 'other' when none holds it.
C3_CategoryByExtension ==
  (categorized # Unset /\ detected = NoneValue)
    => categorized = TableCategory(ClaimedExtension(filepath))


\* The files of a mapping whose analysis raises: their content is not text.
Failing(m) == {i \in 1..Len(m) : ~m[i].content.str}

TextFile(f) == f.content.str

\* What analyze_file returns for a text file on a fresh analyzer.
AloneResult(f) == analyze_file(InitialStats, f.content, f.path).result

\* C4: analyze_repository returns normally whatever files raise: for a
\* mapping of n entries of which k raise, files_analyzed = n - k =
\* len(results), no failing path is in results, and the entries of the other
\* files are what those files get when the failing ones are not supplied.
C4_FailureIsolation ==
  \A h \in Range(history) :
    /\ h.ret.success
    /\ h.ret.files_analyzed = Len(h.files_content) - Cardinality(Failing(h.files_content))
    /\ h.ret.files_analyzed = Len(h.ret.results)
    /\ \A i \in Failing(h.files_content) :
         \A r \in Range(h.ret.results) : r.filepath # h.files_content[i].path
    /\ h.ret.results =
         [i \in 1..Len(SelectSeq(h.files_content, TextFile)) |->
            AloneResult(SelectSeq(h.files_content, TextFile)[i])]

\* A run over a failing file followed by a code file has returned the code
\* file's result alone.
C4_Witness ==
  \E h \in Range(history) :
    /\ Len(h.files_content) = 2
    /\ ~h.files_content[1].content.str
    /\ h.files_content[2] = File(<<"a", ".", "py">>, ExampleSource)
    /\ Len(h.ret.results) = 1
    /\ Len(h.ret.results[1].entities) = 2

\* C5: every aggregate count of a returned analysis counts the successfully
\* analyzed files only.
C5_CountsOnlyAnalyzed ==
  \A h \in Range(history) :
    LET rs == h.ret.results
        st == h.stats_then
    IN  /\ h.ret.files_analyzed = Len(rs)
        /\ h.ret.total_functions = SumOver(CountFunctions, rs)
        /\ h.ret.total_classes = SumOver(CountClasses, rs)
        /\ h.ret.total_entities = SumOver(EntityCount, rs)
        /\ st.total_files = Len(rs)
        /\ \A c \in Categories :
             st.files_by_category[c] = Cardinality({i \in 1..Len(rs) : rs[i].category = c})
        /\ \A x \in DOMAIN st.files_by_type :
             st.files_by_type[x] = Cardinality({i \in 1..Len(rs) : rs[i].extension = x})
        /\ \A l \in DOMAIN st.files_by_language :
             st.files_by_language[l] = Cardinality({i \in 1..Len(rs) : rs[i].language = l})

\* The (from, to) pairs the claim asks for: a function entity f, the name of
\* an entity other than f's, found as a whole word on one of the 30 lines
\* from f's declaration line on.
WantedPairs(r, lines) ==
  {<<r.entities[a].name, r.entities[b].name>> :
     <<a, b>> \in
       {ab \in (1..Len(r.entities)) \X (1..Len(r.entities)) :
          /\ r.entities[ab[1]].type \in FunctionKinds
          /\ r.entities[ab[2]].name # r.entities[ab[1]].name
          /\ \E k \in r.entities[ab[1]].line ..
                      Min(r.entities[ab[1]].line + 29, Len(lines)) :
               WordSearch(r.entities[ab[2]].name, lines[k])}}

\* C6: the edges of a code file are the 'calls' edges f -> g with f a
\* function entity of the file, g the name of an entity of the file other
\* than f, and g a whole word somewhere on the 30 lines that start at f's
\* declaration line; a name first met on line declaration+30 gives no edge.
C6_EdgesAreWindowMentions ==
  (last_call # NoCall /\ last_call.result.language # NoneValue) =>
    /\ {<<e.from, e.to>> : e \in Range(last_call.result.edges)}
         = WantedPairs(last_call.result, last_call.args.content.lines)
    /\ \A e \in Range(last_call.result.edges) : e.type = "calls"

\* f is declared on line 1 and g on line 30, the last line of f's window:
\* the one edge is f -> g.
C6_Witness ==
  /\ last_call # NoCall
  /\ last_call.args.path = <<"a", ".", "py">>
  /\ Len(last_call.args.content.lines) = Window
  /\ last_call.args.content.lines[1] = <<"def", " ", "f", "(", ")", ":">>
  /\ last_call.args.content.lines[Window] = <<"def", " ", "g", "(", ")", ":">>
  /\ last_call.result.edges = << [from |-> <<"f">>, to |-> <<"g">>, type |-> "calls"] >>

\* C7: no edge of any file goes from a name to the same name.
C7_NoSelfEdge ==
  last_call # NoCall =>
    \A e \in Range(last_call.result.edges) : e.from # e.to

\* A file with a function g and a class g, g being mentioned in the function's
\* own window, has edges, none of them g -> g.
C7_Witness ==
  /\ last_call # NoCall
  /\ \E a, b \in 1..Len(last_call.result.entities) :
       /\ last_call.result.entities[a].type = "function"
       /\ last_call.result.entities[b].type = "class"
       /\ last_call.result.entities[a].name = last_call.result.entities[b].name
       /\ last_call.result.entities[b].line > last_call.result.entities[a].line
       /\ last_call.result.entities[b].line < last_call.result.entities[a].line + Window
  /\ last_call.result.edges # <<>>

\* C8: the edges list has at most one edge per source function entity and
\* target name.
C8_OneEdgePerTarget ==
  last_call # NoCall =>
    \A e \in Range(last_call.result.edges) :
      Cardinality({i \in 1..Len(last_call.result.edges) : last_call.result.edges[i] = e})
        <= Cardinality({k \in 1..Len(last_call.result.functions) :
                          last_call.result.functions[k].name = e.from})

\* C9: what analyze_file returns for given arguments (entities, functions,
\* classes, edges, in order) is what it returned for them the first time,
\* whatever the analyzer analyzed in between.
C9_SameArgumentsSameResult ==
  last_call # NoCall =>
    /\ last_call.args \in DOMAIN returned
    /\ returned[last_call.args].entities = last_call.result.entities
    /\ returned[last_call.args].functions = last_call.result.functions
    /\ returned[last_call.args].classes = last_call.result.classes
    /\ returned[last_call.args].edges = last_call.result.edges

\* The example source has been analyzed as the second file of a first run
\* and again as the first file of a second run.
C9_Witness ==
  /\ Len(history) = 1
  /\ Len(history[1].files_content) = 2
  /\ history[1].files_content[2] = File(<<"a", ".", "py">>, ExampleSource)
  /\ history[1].files_content[1].content.str
  /\ frame["t1"].pc = "loop"
  /\ frame["t1"].idx = 2
  /\ last_call.args = File(<<"a", ".", "py">>, ExampleSource)
  /\ Len(last_call.result.edges) = 1

\* C10: a call of analyze_repository that directly follows another with the
\* same mapping returns the same files_analyzed, totals and stats.
C10_RepeatedRunSameTotals ==
  \A i \in 2..Len(history) :
    (history[i].follows /\ history[i].files_content = history[i - 1].files_content) =>
      /\ history[i].ret.files_analyzed = history[i - 1].ret.files_analyzed
      /\ history[i].ret.total_functions = history[i - 1].ret.total_functions
      /\ history[i].ret.total_classes = history[i - 1].ret.total_classes
      /\ history[i].ret.total_entities = history[i - 1].ret.total_entities
      /\ history[i].stats_then = history[i - 1].stats_then
      /\ (clean /\ i = Len(history)) =>
            heap[history[i].ret.stats] = heap[history[i - 1].ret.stats]

\* The same two-file mapping, a code file and a failing file, has been
\* analyzed twice in a row.
C10_Witness ==
  /\ Len(history) = 2
  /\ history[2].follows
  /\ history[2].files_content = history[1].files_content
  /\ history[2].files_content =
       << File(<<"a", ".", "py">>, ExampleSource), File(<<"b", ".", "py">>, NoneContent) >>
  /\ history[2].ret.total_functions = 2
  /\ clean

\* C11: a returned analysis never changes afterwards: its stats, read now,
\* are the stats it had when analyze_repository returned it.
C11_ReturnedAnalysisFrozen ==
  \A h \in Range(history) : heap[h.ret.stats] = h.stats_then

\* ------------------------------------------------ concurrent specification

\* Two callers share one analyzer and call analyze_repository without
\* waiting for each other; the calls interleave between the stats reset,
\* the per-file analyze_file calls and the return.
NextConcurrent ==
  \/ \E t \in Callers, m \in Mappings : begin(t, m)
  \/ \E t \in Callers : step(t)
  \/ \E t \in Callers : finish(t)

SpecConcurrent == Init /\ [][NextConcurrent]_vars

\* self.stats after an iteration whose analyze_file outcome is out.
StatsAfterIteration(out) == IF out.raised THEN out.stats ELSE Tracked(out)

\* self.stats at the return of a call of analyze_repository(m) that runs
\* alone, from its i-th file on.
RECURSIVE StatsAlone(_, _, _)
StatsAlone(stats, m, i) ==
  IF i > Len(m) THEN stats
  ELSE StatsAlone(StatsAfterIteration(analyze_file(stats, m[i].content, m[i].path)),
                  m, i + 1)

\* The per-file results of a call of analyze_repository(m) that runs alone.
ResultsAlone(m) ==
  [i \in 1..Len(SelectSeq(m, TextFile)) |-> AloneResult(SelectSeq(m, TextFile)[i])]

\* C12: each of two interleaved analyze_repository calls on one analyzer
\* returns the stats and the totals it returns when it runs alone.
C12_ConcurrentRunsDoNotInterfere ==
  \A h \in Range(history) :
    /\ h.stats_then = StatsAlone(ResetStats, h.files_content, 1)
    /\ h.ret.files_analyzed = Len(ResultsAlone(h.files_content))
    /\ h.ret.total_functions = SumOver(CountFunctions, ResultsAlone(h.files_content))
    /\ h.ret.total_classes = SumOver(CountClasses, ResultsAlone(h.files_content))
    /\ h.ret.total_entities = SumOver(EntityCount, ResultsAlone(h.files_content))

\* d.get(k, 0)
Count(d, k) == IF k \in DOMAIN d THEN d[k] ELSE 0

\* The file the loop of caller t is about to analyze.
CurrentFile(t) == frame[t].files_content[frame[t].idx]

\* Caller t's loop takes an iteration on a text file without a language.
NonCodeIteration(t) ==
  /\ frame[t].pc = "loop"
  /\ frame[t].idx <= Len(frame[t].files_content)
  /\ CurrentFile(t).content.str
  /\ detect_language(CurrentFile(t).path) = NoneValue
  /\ frame'[t].idx # frame[t].idx

\* What the claim says of such an iteration: one new result, and one more
\* file in total_files, in the file's category and under its extension.
NonCodeCounted(t, f, old, new) ==
  /\ Len(frame'[t].all_results) = Len(frame[t].all_results) + 1
  /\ SubSeq(frame'[t].all_results, 1, Len(frame[t].all_results)) = frame[t].all_results
  /\ \A r \in Range(frame[t].all_results) : r.filepath # f.path
  /\ LET r == frame'[t].all_results[Len(frame'[t].all_results)]
     IN  /\ r.filepath = f.path
         /\ r.language = NoneValue
         /\ r.category = categorize_file(f.path)
         /\ r.category \in {"markup", "config", "style", "other"}
         /\ r.entities = <<>> /\ r.nodes = <<>> /\ r.edges = <<>>
         /\ r.functions = <<>> /\ r.classes = <<>>
  /\ SumOver(CountFunctions, frame'[t].all_results)
       = SumOver(CountFunctions, frame[t].all_results)
  /\ SumOver(CountClasses, frame'[t].all_results)
       = SumOver(CountClasses, frame[t].all_results)
  /\ SumOver(EntityCount, frame'[t].all_results)
       = SumOver(EntityCount, frame[t].all_results)
  /\ new.total_files = old.total_files + 1
  /\ \A c \in Categories :
       new.files_by_category[c] =
         old.files_by_category[c] + (IF c = categorize_file(f.path) THEN 1 ELSE 0)
  /\ \A x \in DOMAIN new.files_by_type \cup DOMAIN old.files_by_type :
       Count(new.files_by_type, x) =
         Count(old.files_by_type, x) + (IF x = SuffixLower(f.path) THEN 1 ELSE 0)
  /\ new.files_by_language = old.files_by_language

\* C13: a supplied text file without a detected language gets exactly one
\* result (language None, its non-code category, nothing extracted) and is
\* counted once in files_analyzed, total_files, its category and its
\* extension, and not at all in the entity totals and files_by_language.
C13_NonCodeFileCounted ==
  [][\A t \in SeqCallers :
       NonCodeIteration(t) =>
         NonCodeCounted(t, CurrentFile(t), heap[self_stats], heap'[self_stats'])]_vars

\* A run over the specification's readme.md example alone has returned it
\* counted as one markup file.
C13_Witness ==
  \E h \in Range(history) :
    /\ h.files_content = << File(<<"readme", ".", "md">>, TitleText) >>
    /\ h.ret.files_analyzed = 1
    /\ h.ret.results[1].category = "markup"
    /\ h.ret.total_entities = 0
    /\ h.stats_then.total_files = 1
    /\ h.stats_then.files_by_category["markup"] = 1
    /\ h.stats_then.files_by_language = <<>>

\* The entities of the results rs, as (result, entity) index pairs, whose
\* kind is in K.
EntitiesOfKinds(rs, K) ==
  UNION {{<<i, k>> : k \in {j \in 1..Len(rs[i].entities) :
                                 rs[i].entities[j].type \in K}} :
           i \in 1..Len(rs)}

\* Every kind of the pattern tables of the languages whose patterns are
\* modelled.
AllKinds ==
  UNION {Range(PatternKinds(l)) : l \in {"python", "javascript", "rust", "ruby"}}

\* C14: total_functions counts the entities of kind function, func or def of
\* the successful results, total_classes those of kind class, struct,
\* interface, trait or type, total_entities all of them; no entity is in
\* both counts, import and module entities are in total_entities only, and
\* total_functions + total_classes <= total_entities.
C14_TotalsCountBuckets ==
  \A h \in Range(history) :
    /\ h.ret.total_functions =
         Cardinality(EntitiesOfKinds(h.ret.results, {"function", "func", "def"}))
    /\ h.ret.total_classes =
         Cardinality(EntitiesOfKinds(h.ret.results,
                       {"class", "struct", "interface", "trait", "type"}))
    /\ h.ret.total_entities = Cardinality(EntitiesOfKinds(h.ret.results, AllKinds))
    /\ h.ret.total_functions + h.ret.total_classes
         = h.ret.total_entities
             - Cardinality(EntitiesOfKinds(h.ret.results, {"import", "module"}))
    /\ h.ret.total_functions + h.ret.total_classes <= h.ret.total_entities

\* A Python file with an import, a class and a function and a Ruby file with
\* a module and a function have been analyzed in one run: 2 functions,
\* 1 class, 5 entities.
C14_Witness ==
  \E h \in Range(history) :
    /\ Len(h.ret.results) = 2
    /\ Cardinality(EntitiesOfKinds(h.ret.results, {"import", "module"})) = 2
    /\ h.ret.total_functions = 2
    /\ h.ret.total_classes = 1
    /\ h.ret.total_entities = 5

\* C15: analyze_file returns, and never raises, for every text content and
\* every path string: after the call on (content, filepath) there is a
\* result for these arguments, with zero or more entities.
C15_TotalOnText ==
  (direct = 1 /\ content.str) =>
    /\ last_call # NoCall
    /\ last_call.args = File(filepath, content)
    /\ last_call.result.filepath = filepath
    /\ Len(last_call.result.entities) >= 0
    /\ last_call.result.lines = Len(content.lines)

\* The empty content has been analyzed under the empty path: a result
\* without entities.
C15_Witness ==
  /\ direct = 1
  /\ filepath = <<>>
  /\ content = Text(<< <<>> >>)
  /\ last_call # NoCall
  /\ last_call.result.entities = <<>>
  /\ last_call.result.category = "other"

\* The last language, in table order, whose extension list holds ext: what
\* detect_language returns when it goes through the table backwards.
LastLanguageOf(ext) ==
  IF LanguagesListing(ext) = {} THEN NoneValue
  ELSE LANGUAGE_PATTERNS[CHOOSE i \in 1..Len(LANGUAGE_PATTERNS) :
         /\ ext \in Range(LANGUAGE_PATTERNS[i].extensions)
         /\ \A k \in i + 1..Len(LANGUAGE_PATTERNS) :
              ext \notin Range(LANGUAGE_PATTERNS[k].extensions)].lang

\* Every extension of the language table.
LanguageExtensions ==
  UNION {Range(LANGUAGE_PATTERNS[i].extensions) : i \in 1..Len(LANGUAGE_PATTERNS)}

\* The categories whose table holds ext.
CategoriesListing(ext) ==
  {c \in {"code", "markup", "config", "style"} :
     \/ c = "code" /\ ext \in LanguageExtensions
     \/ c = "markup" /\ ext \in MARKUP_LANGUAGES
     \/ c = "config" /\ ext \in CONFIG_FILES
     \/ c = "style" /\ ext \in STYLE_FILES}

\* C16: the extension tables are pairwise disjoint (no extension under two
\* languages, none of a language in the markup, config or style set, these
\* three disjoint from each other), so that the order of the lookups does
\* not matter: for every path, detect_language's answer is the only
\* language listing the extension and categorize_file's answer the only
\* category listing it.
C16_TablesDisjoint ==
  /\ \A i, j \in 1..Len(LANGUAGE_PATTERNS) :
       i # j => Range(LANGUAGE_PATTERNS[i].extensions)
                  \cap Range(LANGUAGE_PATTERNS[j].extensions) = {}
  /\ LanguageExtensions \cap (MARKUP_LANGUAGES \cup CONFIG_FILES \cup STYLE_FILES) = {}
  /\ MARKUP_LANGUAGES \cap CONFIG_FILES = {}
  /\ MARKUP_LANGUAGES \cap STYLE_FILES = {}
  /\ CONFIG_FILES \cap STYLE_FILES = {}
  /\ detected # Unset => detected = LastLanguageOf(SuffixLower(filepath))
  /\ categorized # Unset =>
       /\ Cardinality(CategoriesListing(SuffixLower(filepath))) <= 1
       /\ \A c \in CategoriesListing(SuffixLower(filepath)) : categorized = c

\* Both lookups have been made for a path with a language extension in
\* upper case, under a directory.
C16_Witness ==
  /\ filepath = <<"a", "/", "a", ".", "PY">>
  /\ detected = "python"
  /\ categorized = "code"
  /\ CategoriesListing(SuffixLower(filepath)) = {"code"}

\* The names of the entities of kind k found on line i, in list order.
NamesAt(entities, k, i) ==
  [n \in 1..Len(SelectSeq(entities, LAMBDA e : e.type = k /\ e.line = i)) |->
     SelectSeq(entities, LAMBDA e : e.type = k /\ e.line = i)[n].name]

\* C17: the entities of a code file are one per kind, line and match of the
\* kind's pattern on that line, named by the match's first non-empty group,
\* duplicates included; entity_count = len(entities) = len(nodes), and the
\* i-th node has the type, name and line of the i-th entity.
C17_OneEntityPerMatch ==
  (last_call # NoCall /\ last_call.result.language # NoneValue) =>
    /\ \A e \in Range(last_call.result.entities) :
         /\ e.type \in Range(PatternKinds(last_call.result.language))
         /\ e.line \in 1..Len(last_call.args.content.lines)
    /\ \A k \in Range(PatternKinds(last_call.result.language)) :
         \A i \in 1..Len(last_call.args.content.lines) :
           NamesAt(last_call.result.entities, k, i)
             = MatchNames(last_call.result.language, k, last_call.args.content.lines[i])
    /\ last_call.result.entity_count = Len(last_call.result.entities)
    /\ Len(last_call.result.nodes) = Len(last_call.result.entities)
    /\ \A n \in 1..Len(last_call.result.entities) :
         /\ last_call.result.nodes[n].type = last_call.result.entities[n].type
         /\ last_call.result.nodes[n].name = last_call.result.entities[n].name
         /\ last_call.result.nodes[n].line = last_call.result.entities[n].line

\* A script has been analyzed in which one line gave two function entities
\* and another line a class entity and a function entity.
C17_Witness ==
  /\ last_call # NoCall
  /\ \E a, b \in 1..Len(last_call.result.entities) :
       /\ a < b
       /\ last_call.result.entities[a].type = last_call.result.entities[b].type
       /\ last_call.result.entities[a].line = last_call.result.entities[b].line
  /\ \E a, b \in 1..Len(last_call.result.entities) :
       /\ last_call.result.entities[a].type = "function"
       /\ last_call.result.entities[b].type = "class"
       /\ last_call.result.entities[a].line = last_call.result.entities[b].line

\* C18: every entity of a per-file result has a non-empty name, a line
\* number from 1 to the result's 'lines' (the number of lines of the
\* content), the result's language, and a kind of that language's pattern
\* table whose pattern matches that line of the content (and captures the
\* name there).
C18_EntityWellFormed ==
  last_call # NoCall =>
    /\ last_call.result.lines = Len(last_call.args.content.lines)
    /\ \A e \in Range(last_call.result.entities) :
         /\ e.name # <<>>
         /\ e.line >= 1
         /\ e.line <= last_call.result.lines
         /\ e.language = last_call.result.language
         /\ e.language # NoneValue
         /\ e.type # "extensions"
         /\ e.type \in Range(PatternKinds(e.language))
         /\ e.name \in Range(MatchNames(e.language, e.type,
                                        last_call.args.content.lines[e.line]))

\* A Ruby source of three lines has been analyzed, with an entity on its
\* first line and a module entity on its last.
C18_Witness ==
  /\ last_call # NoCall
  /\ last_call.result.language = "ruby"
  /\ last_call.result.lines = 3
  /\ \E e \in Range(last_call.result.entities) : e.line = 1
  /\ \E e \in Range(last_call.result.entities) :
       e.line = last_call.result.lines /\ e.type = "module"

\* The place of a kind in the pattern table of a language.
KindIndex(language, kind) ==
  CHOOSE k \in 1..Len(PatternKinds(language)) : PatternKinds(language)[k] = kind

\* C19: the entities of a file come kind by kind, in the order of the
\* language's pattern table, and within a kind by ascending line, the
\* matches of one line in match order; functions and classes are the
\* entities of their bucket, in the order they have in entities.
C19_EntitiesOrderedByKind ==
  (last_call # NoCall /\ last_call.result.language # NoneValue) =>
    /\ \A a, b \in 1..Len(last_call.result.entities) :
         a < b =>
           /\ KindIndex(last_call.result.language, last_call.result.entities[a].type)
                <= KindIndex(last_call.result.language, last_call.result.entities[b].type)
           /\ last_call.result.entities[a].type = last_call.result.entities[b].type
                => last_call.result.entities[a].line <= last_call.result.entities[b].line
    /\ \A e \in Range(last_call.result.entities) :
         NamesAt(last_call.result.entities, e.type, e.line)
           = MatchNames(e.language, e.type, last_call.args.content.lines[e.line])
    /\ last_call.result.functions =
         SelectSeq(last_call.result.entities,
                   LAMBDA e : e.type \in {"function", "func", "def"})
    /\ last_call.result.classes =
         SelectSeq(last_call.result.entities,
                   LAMBDA e : e.type \in {"class", "struct", "interface", "trait", "type"})

\* A Python source has been analyzed whose import on line 1 comes after the
\* function of line 2 in entities: the list is not sorted by line.
C19_Witness ==
  /\ last_call # NoCall
  /\ last_call.result.language = "python"
  /\ \E a, b \in 1..Len(last_call.result.entities) :
       /\ a < b
       /\ last_call.result.entities[a].type = "function"
       /\ last_call.result.entities[a].line = 2
       /\ last_call.result.entities[b].type = "import"
       /\ last_call.result.entities[b].line = 1

\* The names of the entities of result r whose kind is in K.
NamesOfKinds(r, K) ==
  {r.entities[n].name : n \in {j \in 1..Len(r.entities) : r.entities[j].type \in K}}

\* C20: every edge of a per-file result is a 'calls' edge from the name of a
\* function-kind entity of that file to the name of an entity of that file,
\* of any kind; an entity of another kind starts no edge, and a name that
\* only another file of the run declares ends none.
C20_EdgesStayInFile ==
  \A h \in Range(history) :
    \A r \in Range(h.ret.results) :
      \A e \in Range(r.edges) :
        /\ e.type = "calls"
        /\ e.from \in NamesOfKinds(r, {"function", "func", "def"})
        /\ e.to \in NamesOfKinds(r, AllKinds)

\* A run over the example source and the Ruby source has returned: the Ruby
\* function's body names M, a module of its file, and foo, a function of the
\* other file; its one edge goes to the module.
C20_Witness ==
  \E h \in Range(history) :
    /\ h.files_content = << File(<<"a", ".", "py">>, ExampleSource),
                            File(<<"lib", "/", "m", ".", "rb">>, RubySource) >>
    /\ <<"foo">> \in NamesOfKinds(h.ret.results[1], {"function"})
    /\ WordSearch(<<"foo">>, RubySource.lines[3])
    /\ <<"M">> \in NamesOfKinds(h.ret.results[2], {"module"})
    /\ h.ret.results[2].edges = << [from |-> <<"go">>, to |-> <<"M">>, type |-> "calls"] >>

\* The place of path p among the keys of mapping m.
KeyIndex(m, p) == CHOOSE i \in 1..Len(m) : m[i].path = p

\* C21: in a returned analysis every entry of results carries the path of a
\* key of the supplied mapping and is the analysis of that key's content,
\* every key analyzed successfully has exactly one entry, and the entries
\* follow the iteration order of the mapping.
C21_ResultsAttributable ==
  \A h \in Range(history) :
    /\ \A r \in Range(h.ret.results) :
         \E i \in 1..Len(h.files_content) :
           /\ h.files_content[i].path = r.filepath
           /\ h.files_content[i].content.str
           /\ r = AloneResult(h.files_content[i])
    /\ \A i \in 1..Len(h.files_content) :
         Cardinality({n \in 1..Len(h.ret.results) :
                        h.ret.results[n].filepath = h.files_content[i].path})
           = IF h.files_content[i].content.str THEN 1 ELSE 0
    /\ \A n, k \in 1..Len(h.ret.results) :
         n < k => KeyIndex(h.files_content, h.ret.results[n].filepath)
                    < KeyIndex(h.files_content, h.ret.results[k].filepath)

\* A run over the Ruby source followed by the example source has returned
\* the two results in that order.
C21_Witness ==
  \E h \in Range(history) :
    /\ h.files_content = << File(<<"lib", "/", "m", ".", "rb">>, RubySource),
                            File(<<"a", ".", "py">>, ExampleSource) >>
    /\ Len(h.ret.results) = 2
    /\ h.ret.results[1].language = "ruby"
    /\ h.ret.results[2].filepath = <<"a", ".", "py">>
    /\ Len(h.ret.results[2].entities) = 2

\* sum(d.values())
RECURSIVE SumValues(_)
SumValues(d) ==
  IF DOMAIN d = {} THEN 0
  ELSE d[CHOOSE k \in DOMAIN d : TRUE]
       + SumValues([x \in DOMAIN d \ {CHOOSE k \in DOMAIN d : TRUE} |-> d[x]])

WithLanguage(rs) == {n \in 1..Len(rs) : rs[n].language # NoneValue}

\* C23: in every returned analysis the files_by_language values sum to
\* files_by_category['code'] and to the number of results with a language,
\* and files_by_language has a key only for the languages of such results.
C23_LanguageCountsMatchCode ==
  \A h \in Range(history) :
    /\ SumValues(h.stats_then.files_by_language)
         = h.stats_then.files_by_category["code"]
    /\ SumValues(h.stats_then.files_by_language)
         = Cardinality(WithLanguage(h.ret.results))
    /\ DOMAIN h.stats_then.files_by_language
         = {h.ret.results[n].language : n \in WithLanguage(h.ret.results)}

\* ------------------------------------------------ documentation generators

\* node['file'] = filepath and edge['file'] = filepath: the dicts of the
\* per-file result themselves get the key.
NodeWithFile(n, path) ==
  [type |-> n.type, name |-> n.name, line |-> n.line, file |-> path]

EdgeWithFile(e, path) ==
  [from |-> e.from, to |-> e.to, type |-> e.type, file |-> path]

\* A per-file result after the "Build CCG" loop has gone over it.
Tagged(r) ==
  [r EXCEPT !.nodes = [n \in 1..Len(r.nodes) |-> NodeWithFile(r.nodes[n], r.filepath)],
            !.edges = [n \in 1..Len(r.edges) |-> EdgeWithFile(r.edges[n], r.filepath)]]

\* The results of an analysis after the "Build CCG" loop.
BuildCCG(results) == [n \in 1..Len(results) |-> Tagged(results[n])]

\* The effect of a generate() call on the k-th returned analysis, leaving
\* its results as `results`.  The document written is not modelled.
Generate(k, name, results) ==
  /\ k \in 1..Len(history)
  /\ name \notin history[k].generated
  /\ \A t \in Callers : frame[t].pc # "loop"
  /\ history' = [history EXCEPT ![k].generated = @ \cup {name},
                                ![k].results_now = results]
  /\ UNCHANGED <<ApiVars, ArgVars, ClassifierVars, heap, self_stats, frame, runs,
                 direct, clean, last_call, returned>>

\* docgen.DocGenerator.generate: reads results, stats and the totals.
generate_doc(k) == Generate(k, "DocGenerator", history[k].results_now)

\* docgen_html.HTMLDocGenerator.generate
generate_html(k) ==
  Generate(k, "HTMLDocGenerator", BuildCCG(history[k].results_now))

\* docgen_ai.AIDocGenerator.generate
generate_ai(k) ==
  Generate(k, "AIDocGenerator", BuildCCG(history[k].results_now))

\* The repositories documented: the example source, a markup file and a
\* file whose analysis fails.
DocumentedMappings ==
  {m \in Mappings :
     \A i \in 1..Len(m) :
       m[i] \in { File(<<"a", ".", "py">>, ExampleSource),
                  File(<<"readme", ".", "md">>, TitleText),
                  File(<<"b", ".", "py">>, NoneContent) }}

NextDocs ==
  \/ \E t \in SeqCallers, m \in DocumentedMappings : BeginAlone(t, m)
  \/ \E t \in SeqCallers : step(t)
  \/ \E t \in SeqCallers : finish(t)
  \/ \E k \in 1..MaxRuns : generate_doc(k)
  \/ \E k \in 1..MaxRuns : generate_html(k)
  \/ \E k \in 1..MaxRuns : generate_ai(k)

SpecDocs == Init /\ [][NextDocs]_vars

\* C24: whatever generators have consumed an analysis, each of its per-file
\* results, node and edge records included, is what analyze_repository
\* returned.
C24_ResultsNeverMutated ==
  \A h \in Range(history) : h.results_now = h.ret.results

\* ================================================================ the web API
\* BE/api.py, POST /api/analyze, and BE/py/repo_mapper.py.  One call is
\* followed from its request to its response; GitHub is the environment:
\* what it answers to each request is fixed when the call starts.

\* An HTTP answer: a response with a status and a body, or the exception the
\* request raised.  The body of a tree response is "tree" when it is the
\* JSON listing and "garbage" when decoding it raises; the body of a raw
\* response is "text" when it is UTF-8 and "binary" when it is not, and
\* chars is the length of the decoded text.
Answer(status, body, chars) ==
  [kind |-> "response", status |-> status, body |-> body, chars |-> chars]

\* requests.Timeout
TimedOut == [kind |-> "timeout", status |-> 0, body |-> "none", chars |-> 0]

\* Any other exception of the request (a ConnectionError).
Broken == [kind |-> "error", status |-> 0, body |-> "none", chars |-> 0]

\* A request as the wire log keeps it.
Sent(to, branch, path, i, attempt, answer) ==
  [to |-> to, branch |-> branch, path |-> path, i |-> i, attempt |-> attempt,
   answer |-> answer]

\* str.startswith
StartsWith(s, prefix) ==
  Len(s) >= Len(prefix) /\ SubSeq(s, 1, Len(prefix)) = prefix

GithubPrefix == <<"https", ":", "/", "/", "github", ".", "com", "/">>

\* How the call ends: an HTTPException raised, or an AnalyzeResponse returned.
HTTPException(code) == [kind |-> "raised", status |-> code, files_analyzed |-> 0]

AnalyzeResponse(status, n) == [kind |-> "returned", status |-> status, files_analyzed |-> n]

\* The URL check that opens the endpoint.
validate ==
  /\ endpoint.pc = "start"
  /\ IF ~StartsWith(request.repo_url, GithubPrefix)
     THEN /\ response' = HTTPException("400")
          /\ endpoint' = [endpoint EXCEPT !.pc = "done"]
          /\ UNCHANGED mapper
     ELSE /\ endpoint' = [endpoint EXCEPT !.pc = "map"]
          /\ mapper' = [mapper EXCEPT !.pc = "main"]
          /\ UNCHANGED response
  /\ UNCHANGED <<request, remote, wire, ArgVars, ClassifierVars, AnalyzerVars>>

\* ------------------------------------------------------------ repo_mapper

\* A map_repository that falls back to 'master' on every failure of 'main'.
NeedsMaster_NotOk(answer) == answer.status # 200

\* The fallback test of map_repository.
NeedsMaster(answer) == answer.status = 404

\* The paths of the tree items of one type, in listing order.
ItemPaths(listing, type) ==
  LET items == SelectSeq(listing, LAMBDA it : it.type = type)
  IN  [n \in 1..Len(items) |-> items[n].path]

\* What map_repository returns after its last answer.
MapResult(answer) ==
  IF answer.kind = "response" /\ answer.status = 200 /\ answer.body = "tree"
  THEN LET files == ItemPaths(remote.listing, "blob")
           directories == ItemPaths(remote.listing, "tree")
       IN  [success |-> TRUE, error |-> NoneValue, files |-> files,
            directories |-> directories, file_count |-> Len(files),
            directory_count |-> Len(directories)]
  ELSE [success |-> FALSE,
        error |-> IF answer.kind = "response" /\ answer.status # 200
                  THEN "Failed to fetch repository: " \o ToString(answer.status)
                  ELSE "exception",
        files |-> <<>>, directories |-> <<>>,
        file_count |-> NoneValue, directory_count |-> NoneValue]

\* map_repository asks for the tree of 'main'.
map_main ==
  /\ mapper.pc = "main"
  /\ wire' = Append(wire, Sent("tree", "main", <<>>, 0, 0, remote.main))
  /\ mapper' = [mapper EXCEPT
       !.response = remote.main,
       !.pc = IF remote.main.kind = "response" /\ NeedsMaster(remote.main)
              THEN "master" ELSE "return"]
  /\ UNCHANGED <<request, remote, endpoint, response, ArgVars, ClassifierVars,
                 AnalyzerVars>>

\* map_repository asks for the tree of 'master'.
map_master ==
  /\ mapper.pc = "master"
  /\ wire' = Append(wire, Sent("tree", "master", <<>>, 0, 0, remote.master))
  /\ mapper' = [mapper EXCEPT !.response = remote.master, !.pc = "return"]
  /\ UNCHANGED <<request, remote, endpoint, response, ArgVars, ClassifierVars,
                 AnalyzerVars>>

\* map_repository returns, and the endpoint looks at repo_map['success'].
map_return ==
  /\ mapper.pc = "return"
  /\ LET result == MapResult(mapper.response)
     IN  /\ mapper' = [mapper EXCEPT !.pc = "done", !.result = result]
         /\ IF ~result.success
            THEN /\ response' = AnalyzeResponse("error", 0)
                 /\ endpoint' = [endpoint EXCEPT !.pc = "done"]
            ELSE /\ endpoint' = [endpoint EXCEPT !.pc = "select"]
                 /\ UNCHANGED response
  /\ UNCHANGED <<request, remote, wire, ArgVars, ClassifierVars, AnalyzerVars>>

\* ------------------------------------------------------- file selection

code_extensions ==
  {".py", ".js", ".jsx", ".ts", ".tsx", ".java", ".cpp", ".c", ".h",
   ".cs", ".go", ".rs", ".rb", ".php", ".swift", ".kt", ".scala"}

config_extensions == {".json", ".yaml", ".yml", ".toml", ".ini"}

doc_extensions == {".md", ".rst", ".txt"}

\* The directory markers of the skip filter.  Each is looked for as a
\* substring of the lower-cased path; a marker's word is a whole word of the
\* paths considered, never the end of a longer one.
SkippedDirectories ==
  { <<"node_modules", "/">>, <<"vendor", "/">>, <<".", "git", "/">>,
    <<"dist", "/">>, <<"build", "/">>, <<"__pycache__", "/">>,
    <<".", "next", "/">>, <<".", "nuxt", "/">>, <<"target", "/">> }

\* sub in s
Contains(s, sub) ==
  \E k \in 1..(Len(s) - Len(sub) + 1) : SubSeq(s, k, k + Len(sub) - 1) = sub

InSkippedDirectory(f) ==
  \E skip \in SkippedDirectories : Contains(LowerAll(f), skip)

\* The list a path that passed the skip filter is appended to.
BucketOf(f) ==
  LET ext == SuffixLower(f)
  IN  IF ext \in code_extensions THEN "code"
      ELSE IF ext \in config_extensions THEN "config"
      ELSE IF ext \in doc_extensions THEN "docs"
      ELSE "other"

\* The paths of all_files appended to one list, in order.
BucketList(all_files, name) ==
  SelectSeq(all_files, LAMBDA f : ~InSkippedDirectory(f) /\ BucketOf(f) = name)

Max(a, b) == IF a >= b THEN a ELSE b

Abs(a) == IF a >= 0 THEN a ELSE -a

\* lst[:k]: the first k elements, and for a negative k all but the last -k.
Take(lst, k) ==
  SubSeq(lst, 1, IF k >= 0 THEN Min(k, Len(lst)) ELSE Max(Len(lst) + k, 0))

\* The products max_files * share whose double falls just below the integer
\* they equal, for |max_files| up to MaxMagnitude.
RoundsBelow ==
  { <<90, 7, 10>>, <<170, 7, 10>>, <<180, 7, 10>>, <<330, 7, 10>>,
    <<340, 7, 10>>, <<350, 7, 10>>, <<360, 7, 10>> }

\* int(max_files * (num / den)): the double product, truncated toward zero.
Portion(m, num, den) ==
  LET whole == (Abs(m) * num) \div den
      below == IF <<Abs(m), num, den>> \in RoundsBelow THEN whole - 1 ELSE whole
  IN  IF m >= 0 THEN below ELSE -below

\* The cap on the files fetched by one call.
MaxSelected == 150

\* files_to_analyze before the final slice.
Prioritized(buckets, max_files) ==
  Take(buckets.code, Portion(max_files, 7, 10))
    \o Take(buckets.config, Portion(max_files, 15, 100))
    \o Take(buckets.docs, Portion(max_files, 1, 10))
    \o Take(buckets.other, Portion(max_files, 5, 100))

Selected(buckets, max_files) ==
  Take(Prioritized(buckets, max_files), max_files)

\* The files are put in their lists and the ones to fetch are chosen; a
\* null max_files makes min() raise, which ends the call with HTTP 500.
select ==
  /\ endpoint.pc = "select"
  /\ IF request.max_files_null
     THEN /\ response' = HTTPException("500")
          /\ endpoint' = [endpoint EXCEPT !.pc = "done"]
     ELSE LET all_files == mapper.result.files
              buckets == [code |-> BucketList(all_files, "code"),
                          config |-> BucketList(all_files, "config"),
                          docs |-> BucketList(all_files, "docs"),
                          other |-> BucketList(all_files, "other")]
              max_files == Min(request.max_files, MaxSelected)
          IN  /\ endpoint' = [endpoint EXCEPT
                   !.buckets = buckets,
                   !.max_files = max_files,
                   !.files_to_analyze = Selected(buckets, max_files),
                   !.i = 0,
                   !.pc = "fetch"]
              /\ UNCHANGED response
  /\ UNCHANGED <<request, remote, mapper, wire, ArgVars, ClassifierVars,
                 AnalyzerVars>>

\* ------------------------------------------------------------- fetch loop

max_retries == 1

\* The longest path that is fetched, in characters.
MaxPathChars == 200

\* The longest content that is stored, in characters.
MaxContentChars == 500000

\* The success rate is looked at every StopEvery files.
StopEvery == 50

\* file_path of the running iteration.
CurrentPath == endpoint.files_to_analyze[endpoint.i + 1]

\* len(files_content) < i * 0.3
LowSuccess(stored, i) == stored * 10 < i * 3

\* The end of iteration i: len(files_content) is noted, and the loop goes to
\* the next file.
NextIteration(e) ==
  [e EXCEPT !.progress = Append(@, Cardinality(e.files_content)),
            !.i = @ + 1, !.attempt = 0, !.pc = "fetch"]

\* The head of the for loop: the loop ends, or a long path is skipped, or
\* the attempts on file_path begin.
next_file ==
  /\ endpoint.pc = "fetch"
  /\ endpoint' =
       IF endpoint.i >= Len(endpoint.files_to_analyze)
       THEN [endpoint EXCEPT !.pc = "analyze"]
       ELSE IF Len(Concat(CurrentPath)) > MaxPathChars
       THEN NextIteration(endpoint)
       ELSE [endpoint EXCEPT !.attempt = 0, !.pc = "attempt"]
  /\ UNCHANGED <<request, remote, mapper, wire, response, ArgVars,
                 ClassifierVars, AnalyzerVars>>

\* What the attempt loop does after an answer.
Handling(answer) ==
  IF answer.kind = "timeout" THEN "continue"
  ELSE IF answer.kind = "error" THEN "break"
  ELSE IF answer.status # 200 THEN "break"
  ELSE IF answer.body # "text" THEN "break"
  ELSE IF answer.chars > MaxContentChars THEN "continue"
  ELSE "store"

\* The endpoint after the answer that ends an attempt.
Handled(answer) ==
  LET h == Handling(answer)
  IN  IF h = "store"
      THEN [endpoint EXCEPT !.files_content = @ \cup {CurrentPath}, !.pc = "check"]
      ELSE IF h = "continue" /\ endpoint.attempt < max_retries
      THEN [endpoint EXCEPT !.attempt = @ + 1, !.pc = "attempt"]
      ELSE [endpoint EXCEPT !.pc = "check"]

\* One attempt asks for the file on 'main'.
get_main ==
  /\ endpoint.pc = "attempt"
  /\ LET answer == remote.raw[CurrentPath].main[endpoint.attempt + 1]
     IN  /\ wire' = Append(wire, Sent("raw", "main", CurrentPath, endpoint.i,
                                      endpoint.attempt, answer))
         /\ endpoint' =
              IF answer.kind = "response" /\ answer.status = 404
                 /\ endpoint.attempt = 0
              THEN [endpoint EXCEPT !.pc = "master"]
              ELSE Handled(answer)
  /\ UNCHANGED <<request, remote, mapper, response, ArgVars, ClassifierVars,
                 AnalyzerVars>>

\* The first attempt asks for the file on 'master'.
get_master ==
  /\ endpoint.pc = "master"
  /\ LET answer == remote.raw[CurrentPath].master
     IN  /\ wire' = Append(wire, Sent("raw", "master", CurrentPath, endpoint.i,
                                      endpoint.attempt, answer))
         /\ endpoint' = Handled(answer)
  /\ UNCHANGED <<request, remote, mapper, response, ArgVars, ClassifierVars,
                 AnalyzerVars>>

\* After the attempts on file i: the success rate check.
check ==
  /\ endpoint.pc = "check"
  /\ endpoint' =
       IF endpoint.i > 0 /\ endpoint.i % StopEvery = 0
          /\ LowSuccess(Cardinality(endpoint.files_content), endpoint.i)
       THEN [endpoint EXCEPT
               !.progress = Append(@, Cardinality(endpoint.files_content)),
               !.pc = "analyze"]
       ELSE NextIteration(endpoint)
  /\ UNCHANGED <<request, remote, mapper, wire, response, ArgVars,
                 ClassifierVars, AnalyzerVars>>

\* --------------------------------------------- analysis and documentation

\* CodeAnalyzer().analyze_repository(files_content)
analyze ==
  /\ endpoint.pc = "analyze"
  /\ endpoint' = [endpoint EXCEPT !.analysis = Append(@, endpoint.files_content),
                                  !.pc = "document"]
  /\ UNCHANGED <<request, remote, mapper, wire, response, ArgVars,
                 ClassifierVars, AnalyzerVars>>

\* A response that trusts the path the generator returned.
Responding_Unchecked(docs, n) ==
  IF docs # "raised" THEN AnalyzeResponse("success", n) ELSE HTTPException("500")

\* How the call ends once the generator is through: docs is "written" when
\* the path it returned exists, "missing" when it returned none or the file
\* is not there, "raised" when it raised.
Responding(docs, n) ==
  IF docs = "written" THEN AnalyzeResponse("success", n) ELSE HTTPException("500")

\* DocGenerator.generate and the response.
document ==
  /\ endpoint.pc = "document"
  /\ \E docs \in {"written", "missing", "raised"} :
       /\ endpoint' = [endpoint EXCEPT !.docs = docs, !.pc = "done"]
       /\ response' = Responding(docs, Cardinality(endpoint.files_content))
  /\ UNCHANGED <<request, remote, mapper, wire, ArgVars, ClassifierVars,
                 AnalyzerVars>>

\* ---------------------------------------------------- calls and remotes

GoodUrl == GithubPrefix \o <<"o", "/", "r">>

\* The URLs of the calls: a GitHub repository, and URLs with another scheme,
\* another host, another case, no path, and the empty URL.
RepoUrls ==
  { GoodUrl,
    <<"http", ":", "/", "/", "github", ".", "com", "/", "o", "/", "r">>,
    <<"https", ":", "/", "/", "gitlab", ".", "com", "/", "o", "/", "r">>,
    <<"https", ":", "/", "/", "GitHub", ".", "com", "/", "o", "/", "r">>,
    <<"https", ":", "/", "/", "github", ".", "com">>,
    <<>> }

\* What the tree API may answer.
TreeAnswers ==
  { Answer(200, "tree", 0), Answer(200, "garbage", 0), Answer(404, "none", 0),
    Answer(403, "none", 0), Answer(500, "none", 0), Broken }

Fine == Answer(200, "text", 10)

AtLimit == Answer(200, "text", MaxContentChars)

TooLarge == Answer(200, "text", MaxContentChars + 1)

Binary == Answer(200, "binary", 0)

NotFound == Answer(404, "none", 0)

ServerError == Answer(500, "none", 0)

\* What the raw-content host may answer.
RawAnswers ==
  {Fine, AtLimit, TooLarge, Binary, NotFound, ServerError, TimedOut, Broken}

\* The answers one file gets: on 'main' at the first and at the second
\* attempt, and on 'master'.
Behaviour(first, master, second) ==
  [main |-> <<first, second>>, master |-> master]

AlwaysFine == Behaviour(Fine, Fine, Fine)

AlwaysMissing == Behaviour(NotFound, NotFound, NotFound)

Item(path, type) == [path |-> path, type |-> type]

Blobs(paths) == [n \in 1..Len(paths) |-> Item(paths[n], "blob")]

\* A small repository: code the two extension tables agree on, code only
\* one of them knows, a dependency directory, configuration, documentation
\* and a file without extension.
SmallFiles ==
  << <<"a", ".", "py">>, <<"main", ".", "c">>, <<"a", ".", "mjs">>,
     <<"node_modules", "/", "x", ".", "js">>, <<"conf", ".", "json">>,
     <<"readme", ".", "md">>, <<"LICENSE">>, <<"b", ".", "PY">>,
     <<"lib", ".", "scala">>, <<"src", "/", "c", ".", "go">> >>

SmallListing ==
  <<Item(<<"src">>, "tree"), Item(<<"node_modules">>, "tree")>> \o Blobs(SmallFiles)

\* A large repository: more files of each list than a call may fetch.
MaxCode == 160

MaxConfig == 30

MaxDocs == 20

MaxOther == 15

Numbered(n, ext) == [k \in 1..n |-> <<"f" \o ToString(k), ".", ext>>]

LargeFiles ==
  Numbered(MaxCode, "py") \o Numbered(MaxConfig, "json")
    \o Numbered(MaxDocs, "md") \o Numbered(MaxOther, "bin")

\* A path of more than MaxPathChars characters: a file MaxDepth directories deep.
MaxDepth == 100

LongPath ==
  [k \in 1..(2 * MaxDepth) |-> IF k % 2 = 1 THEN "d" ELSE "/"] \o <<"a", ".", "py">>

\* LargeFiles with the long path as its n-th file.
WithLongPath(n) == [LargeFiles EXCEPT ![n] = LongPath]

\* The n-th file and the files before it are there, the others are not.
FirstOnes(files, n) ==
  [p \in Range(files) |->
     IF \E k \in 1..Min(n, Len(files)) : files[k] = p THEN AlwaysFine
     ELSE AlwaysMissing]

Call(url, max_files, null, main, master, files, raw) ==
  [request |-> [repo_url |-> url, max_files |-> max_files, max_files_null |-> null],
   remote |-> [main |-> main, master |-> master, listing |-> Blobs(files),
               raw |-> raw]]

\* Calls that differ in the URL and in what the tree API answers.
MappingCalls ==
  { [Call(url, 200, FALSE, main, master, SmallFiles,
          FirstOnes(SmallFiles, Len(SmallFiles)))
       EXCEPT !.remote.listing = SmallListing] :
      url \in RepoUrls, main \in TreeAnswers, master \in TreeAnswers }

\* The largest |max_files| of a call.
MaxMagnitude == 400

MaxFilesValues == {0 - MaxMagnitude, -90, -3, -2, -1, 0, 1, 2, 7, 20, 90, 149, 150, 151, 200, MaxMagnitude}

\* Calls that differ in max_files, on the small and on the large repository.
SelectionCalls ==
  { Call(GoodUrl, m, FALSE, Answer(200, "tree", 0), NotFound, files,
         FirstOnes(files, Len(files))) :
      m \in MaxFilesValues, files \in {SmallFiles, LargeFiles} }
    \cup { Call(GoodUrl, 0, TRUE, Answer(200, "tree", 0), NotFound, SmallFiles,
                FirstOnes(SmallFiles, Len(SmallFiles))) }

TwoFiles == << <<"a", ".", "py">>, <<"b", ".", "py">> >>

\* Calls that differ in what the first of two files gets for an answer.
FetchCalls ==
  { Call(GoodUrl, 200, FALSE, NotFound, Answer(200, "tree", 0), TwoFiles,
         (<<"a", ".", "py">> :> Behaviour(first, master, second))
           @@ (<<"b", ".", "py">> :> AlwaysFine)) :
      first \in RawAnswers, master \in RawAnswers, second \in RawAnswers }

\* How many of the first files of the large repository are there.
Thresholds == {0, 14, 15, 29, 30, MaxCode}

\* Calls on the large repository that differ in the success rate, without
\* and with a long path as the file of index StopEvery.
RateCalls ==
  { Call(GoodUrl, 200, FALSE, Answer(200, "tree", 0), NotFound, files,
         FirstOnes(files, n)) :
      n \in Thresholds, files \in {LargeFiles, WithLongPath(StopEvery + 1)} }

Calls == MappingCalls \cup SelectionCalls \cup FetchCalls \cup RateCalls

InitApi ==
  /\ InitFixedArgs
  /\ InitAnalyzer
  /\ \E c \in Calls : request = c.request /\ remote = c.remote
  /\ mapper = IdleMapper
  /\ endpoint = [IdleEndpoint EXCEPT !.pc = "start"]
  /\ wire = <<>>
  /\ response = NoResponse

NextApi ==
  \/ validate
  \/ map_main
  \/ map_master
  \/ map_return
  \/ select
  \/ next_file
  \/ get_main
  \/ get_master
  \/ check
  \/ analyze
  \/ document

SpecApi == InitApi /\ [][NextApi]_vars

\* ------------------------------------------------------ claims on the API

\* The tree requests sent so far, in order.
TreeRequests == SelectSeq(wire, LAMBDA s : s.to = "tree")

\* The raw-content requests sent so far, in order.
RawRequests == SelectSeq(wire, LAMBDA s : s.to = "raw")

\* C25: map_repository asks for the tree of 'main' first and for 'master'
\* if and only if 'main' answered 404; once it has returned, success is
\* TRUE exactly when its last answer was a status 200 whose body decoded,
\* with file_count and directory_count the lengths of the two lists, and
\* in every other case (another status, an exception of the request or of
\* the decoding) it returned success FALSE with an error text and empty
\* lists.
C25_MapRepositoryOutcome ==
  LET asked == TreeRequests
      last == asked[Len(asked)].answer
      result == mapper.result
  IN  /\ asked # <<>> => asked[1].branch = "main"
      /\ mapper.pc \in {"return", "done"} =>
           /\ Len(asked) \in {1, 2}
           /\ Len(asked) = 2 <=>
                asked[1].answer.kind = "response" /\ asked[1].answer.status = 404
           /\ Len(asked) = 2 => asked[2].branch = "master"
      /\ mapper.pc = "done" =>
           /\ result.success <=>
                last.kind = "response" /\ last.status = 200 /\ last.body = "tree"
           /\ result.success =>
                /\ result.files = ItemPaths(remote.listing, "blob")
                /\ result.directories = ItemPaths(remote.listing, "tree")
                /\ result.file_count = Len(result.files)
                /\ result.directory_count = Len(result.directories)
           /\ ~result.success =>
                /\ result.error \notin {Unset, NoneValue}
                /\ result.files = <<>>
                /\ result.directories = <<>>

\* map_repository returned the listing it got from 'master' after 'main'
\* answered 404.
C25_Witness ==
  /\ mapper.pc = "done"
  /\ mapper.result.success
  /\ mapper.result.file_count = Len(SmallFiles)
  /\ mapper.result.directory_count = 2
  /\ Len(TreeRequests) = 2
  /\ remote.main.status = 404

\* How many of the selected files are in one of the endpoint's lists.
SelectedFrom(name) ==
  Cardinality({n \in 1..Len(endpoint.files_to_analyze) :
                 endpoint.files_to_analyze[n] \in Range(endpoint.buckets[name])})

\* C26: whatever integer max_files is, the files selected for fetching are
\* at most 150 and at most max(max_files, 0), and at most 70% of the cap
\* come from the code list, 15% from config, 10% from docs and 5% from other.
C26_SelectionWithinCap ==
  LET cap == Max(Min(request.max_files, MaxSelected), 0)
  IN  ~request.max_files_null =>
        /\ Len(endpoint.files_to_analyze) <= MaxSelected
        /\ Len(endpoint.files_to_analyze) <= Max(request.max_files, 0)
        /\ SelectedFrom("code") * 10 <= cap * 7
        /\ SelectedFrom("config") * 100 <= cap * 15
        /\ SelectedFrom("docs") * 10 <= cap
        /\ SelectedFrom("other") * 100 <= cap * 5

\* The requests sent for one path, in order.
RequestsFor(p) == SelectSeq(RawRequests, LAMBDA s : s.path = p)

\* An answer with status 200 and UTF-8 content of at most MaxContentChars
\* characters.
Storable(answer) ==
  /\ answer.kind = "response"
  /\ answer.status = 200
  /\ answer.body = "text"
  /\ answer.chars <= MaxContentChars

\* An answer with status 200 and UTF-8 content of more than MaxContentChars
\* characters.
FoundLarger(answer) ==
  /\ answer.kind = "response"
  /\ answer.status = 200
  /\ answer.body = "text"
  /\ answer.chars > MaxContentChars

\* C27: in the fetch loop each selected file gets at most max_retries + 1
\* attempts, a second attempt is made only after the first one timed out,
\* 'master' is requested only after 'main' answered 404 on the first
\* attempt, a path is stored only if some attempt returned status 200 with
\* decodable content of at most 500000 characters, and a file found to be
\* larger is skipped without any further request.
C27_FetchAttempts ==
  \A p \in Range(endpoint.files_to_analyze) :
    LET sent == RequestsFor(p)
    IN  /\ \A k \in 1..Len(sent) : sent[k].attempt <= max_retries
        /\ Cardinality({k \in 1..Len(sent) : sent[k].branch = "main"}) <= max_retries + 1
        /\ \A k \in 1..Len(sent) :
             sent[k].attempt = 1 =>
               /\ k > 1
               /\ sent[k - 1].attempt = 0
               /\ sent[k - 1].answer.kind = "timeout"
        /\ \A k \in 1..Len(sent) :
             sent[k].branch = "master" =>
               /\ k > 1
               /\ sent[k - 1].branch = "main"
               /\ sent[k - 1].attempt = 0
               /\ sent[k].attempt = 0
               /\ sent[k - 1].answer.kind = "response"
               /\ sent[k - 1].answer.status = 404
        /\ p \in endpoint.files_content =>
             \E k \in 1..Len(sent) : Storable(sent[k].answer)
        /\ \A k \in 1..Len(sent) :
             FoundLarger(sent[k].answer) => k = Len(sent)

\* The indexes at which the success rate is to be looked at, among the
\* iterations that are over.
StopPoints ==
  {i \in 1..(Len(endpoint.progress) - 1) : i % StopEvery = 0}

\* Fewer than 30% of i files were stored when iteration i was over.
FewStored(i) == endpoint.progress[i + 1] * 100 < 30 * i

\* C28: at every index i > 0 that is a multiple of 50, if fewer than 30% of
\* i files have been stored, fetching stops and no file of a larger index
\* is requested; otherwise fetching goes on, so that a loop whose success
\* rate never dropped below 30% has gone through every selected file.
C28_EarlyStop ==
  /\ \A i \in StopPoints :
       FewStored(i) => \A k \in 1..Len(RawRequests) : RawRequests[k].i <= i
  /\ (endpoint.pc \in {"analyze", "document"} /\ \A i \in StopPoints : ~FewStored(i))
       => Len(endpoint.progress) = Len(endpoint.files_to_analyze)

\* C29: the stages run in order and each is gated on the one before.  A
\* repo_url that does not start with 'https://github.com/' ends in HTTP 400
\* with no request sent; when map_repository reported success FALSE the
\* response has status 'error' and nothing was fetched, analyzed or
\* documented; a response with status 'success' comes only after the
\* analysis ran and the documentation file exists, and a call that got past
\* the mapping without reaching it ends in HTTP 500.
C29_StagesGated ==
  LET valid == StartsWith(request.repo_url, GithubPrefix)
      mapped == mapper.pc = "done" /\ mapper.result.success
  IN  /\ (~valid /\ endpoint.pc # "start") =>
           /\ endpoint.pc = "done"
           /\ response = HTTPException("400")
           /\ wire = <<>>
      /\ response = HTTPException("400") => ~valid
      /\ (mapper.pc = "done" /\ ~mapper.result.success) =>
           /\ endpoint.pc = "done"
           /\ response = AnalyzeResponse("error", 0)
           /\ RawRequests = <<>>
           /\ endpoint.analysis = <<>>
           /\ endpoint.docs = Unset
      /\ RawRequests # <<>> => mapped
      /\ endpoint.analysis # <<>> => mapped /\ endpoint.pc \in {"document", "done"}
      /\ endpoint.docs # Unset => endpoint.analysis # <<>>
      /\ response.status = "success" =>
           /\ response.kind = "returned"
           /\ Len(endpoint.analysis) = 1
           /\ endpoint.docs = "written"
      /\ (endpoint.pc = "done" /\ mapped /\ response.status # "success") =>
           response = HTTPException("500")

\* A call answered 'success': the listing came from 'master', files were
\* fetched and analyzed, and the documentation file is there.
C29_Witness ==
  /\ response = AnalyzeResponse("success", 2)
  /\ Len(TreeRequests) = 2
  /\ Len(RawRequests) >= 2
  /\ endpoint.analysis = <<endpoint.files_content>>
  /\ endpoint.docs = "written"

\* A call whose generator left no file ended in HTTP 500 after the analysis.
C29_WitnessMissing ==
  /\ response = HTTPException("500")
  /\ endpoint.docs = "missing"
  /\ endpoint.analysis # <<>>

\* The paths of the listing that the skip filter lets through.
Considered == {f \in Range(mapper.result.files) : ~InSkippedDirectory(f)}

\* C30: once the files are in their lists, every path of the code list is
\* categorized 'code' by categorize_file, and every path that passed the
\* directory filter and that categorize_file calls 'code' is in the code
\* list.
C30_CodeBucketIsAnalyzerCode ==
  endpoint.pc \in {"fetch", "attempt", "master", "check", "analyze", "document"} =>
    /\ \A f \in Range(endpoint.buckets.code) : categorize_file(f) = "code"
    /\ \A f \in Considered :
         categorize_file(f) = "code" => f \in Range(endpoint.buckets.code)

====
